---------------------------- MODULE Spec2Model ----------------------------
(***************************************************************************)
(* Model of the invoice review application:                                *)
(*   - the PdfViewer component (src/components/PdfViewer.tsx): the box and *)
(*     gridline gesture machines, the table grid editor, the cancelable    *)
(*     page render and the deferred zoomToBox request;                     *)
(*   - the App callbacks the viewer writes through (src/types.ts, second   *)
(*     half: handleBoxUpdate, handleTableUpdate, handleBoxClick);          *)
(*   - template reconciliation (src/services/geminiService.ts, second      *)
(*     half: degradeInvoiceData, boostConfidence, _extractInvoiceData).    *)
(*                                                                         *)
(* Numbers.  A normalized coordinate is an integer number of grid units:   *)
(* the value k stands for k / Grid of the page.  A scale is an integer in  *)
(* thousandths (ScaleOne is the scale 1).  A confidence is an integer in   *)
(* hundredths.  Sequences are 1-based: index i here is index i-1 in the    *)
(* source.                                                                 *)
(***************************************************************************)
EXTENDS Integers, Sequences, FiniteSets, TLC

VARIABLES
    \* ---- props and state of the viewer used by the gesture handlers
    boxes,            \* data: path -> BoundingBox (lodash get/set by path)
    tables,           \* data.tables
    bboxInteraction,  \* useState, PdfViewer.tsx:52
    gridInteraction,  \* useState, PdfViewer.tsx:53
    activeFieldPath,  \* App state, handed to the viewer as a prop
    nEvents,          \* number of pointer events served so far (bounded)
    lastEvent,        \* history: the event the gesture handlers served last
    \* ---- state of the viewer used by page rendering and zooming
    currentPage,      \* useState, PdfViewer.tsx:49
    scale,            \* useState, PdfViewer.tsx:50
    transform,        \* useState, PdfViewer.tsx:51
    calls,            \* the renderPage invocations that have not returned
    renderTask,       \* useRef, PdfViewer.tsx:45: id of a call, or 0 for null
    pendingZoomRef,   \* useRef, PdfViewer.tsx:46
    canvasPage,       \* page whose dimensions the canvas style holds, 0 if none
    curTimer,         \* the resize timeout of the live render effect is armed
    staleTimers,      \* pages captured by armed timeouts of torn-down effects
    nCalls,           \* number of renderPage invocations so far (bounded)
    zoomReq,          \* history: the most recent zoomToBox call
    \* ---- one call of _extractInvoiceData
    exTemplates,      \* argument templates
    exLoaded,         \* argument loadedTemplate: its index in templates, 0 = null
    exExtracted,      \* the normalizer output (extractedData)
    exResult,         \* what the call returned, or NoResult before it ran
    \* ---- one call of transformModelResponseToInvoiceData
    nzResponse,       \* argument modelResponse: results[0].page_data
    nzDims,           \* argument pageDimensions
    nzOutput,         \* what the call returned, or NoOutput before it ran
    \* ---- state of the App
    imageFile,        \* useState, types.ts:133: a file is selected
    extractedData,    \* useState, types.ts:134
    editedData,       \* useState, types.ts:135
    error,            \* useState, types.ts:138
    isLoading,        \* useState, types.ts:136
    extractsPending,  \* calls of extractInvoiceData that have not settled
    nExtracts,        \* number of extractions started so far (bounded)
    heldBefore,       \* history: editedData when the latest extraction started
    lastSettled,      \* history: how the latest settled extraction ended
    \* ---- the document of the viewer
    pdfDoc,           \* useState, PdfViewer.tsx:47: a document, or 0 for null
    numPages,         \* useState, PdfViewer.tsx:48
    loadsPending,     \* document loads that have not settled
    nLoads,           \* number of document loads started so far (bounded)
    lastLoad,         \* history: how the latest document load ended
    \* ---- the overlay of the viewer
    invoiceData,      \* the data prop as a tree (argument of getAllBoxes)
    allBoxes,         \* PdfViewer.tsx:380: the pairs of the latest render
    \* ---- the template store
    stItem,           \* the item localStorage holds under the templates key
    nIds,             \* number of ids generateId has returned
    nStoreOps,        \* number of calls of the store so far (bounded)
    lastOp,           \* history: the latest call of the store
    \* ---- the App with its templates and its asynchronous calls
    appState,         \* the useState values of the App, types.ts:133-147
    inFlight,         \* the service calls the App awaits
    appHist           \* history: counters and the latest settled call

gestureVars == <<boxes, tables, bboxInteraction, gridInteraction,
                 activeFieldPath, nEvents, lastEvent>>
viewVars    == <<currentPage, scale, transform>>
renderVars  == <<calls, renderTask, pendingZoomRef, canvasPage, curTimer,
                 staleTimers, nCalls, zoomReq>>
extractVars == <<exTemplates, exLoaded, exExtracted, exResult>>
normVars    == <<nzResponse, nzDims, nzOutput>>
appVars     == <<imageFile, extractedData, editedData, error, isLoading,
                 extractsPending, nExtracts, heldBefore, lastSettled>>
docVars     == <<pdfDoc, numPages, loadsPending, nLoads, lastLoad>>
overlayVars == <<invoiceData, allBoxes>>
storeVars   == <<stItem, nIds, nStoreOps, lastOp>>
sessionVars == <<appState, inFlight, appHist>>
otherVars   == <<normVars, appVars, docVars, overlayVars, storeVars,
                 sessionVars>>
vars == <<gestureVars, viewVars, renderVars, extractVars, otherVars>>

----------------------------------------------------------------------------
(* Bounds of the model *)

Grid      == 3   \* grid units per page side
NumPages  == 2   \* pages of the loaded document
MaxEvents == 4   \* pointer events in one behaviour
MaxLines  == 3   \* rows (columns) a table may grow to by insertion

(* Program constants *)

ScaleOne  == 1000   \* the scale 1, in thousandths
MinScale  == 500    \* handleZoomOut's floor 0.5, in thousandths

None == "none"

Min(a, b) == IF a <= b THEN a ELSE b
Max(a, b) == IF a >= b THEN a ELSE b

\* canvas.style.width / height in screen pixels (renderPage): two and four
\* pixels per grid unit, so that width and height differ.
CanvasW == 2 * Grid
CanvasH == 4 * Grid

----------------------------------------------------------------------------
(* Geometry types, src/types.ts:1-7 and 42-46 *)

Box(p, a, b, c, d) == [page |-> p, x1 |-> a, y1 |-> b, x2 |-> c, y2 |-> d]

Table(bb, rs, cs) == [boundingBox |-> bb, rows |-> rs, columns |-> cs]

ZeroBox == Box(0, 0, 0, 0, 0)

IdleBbox == [mode |-> "idle", path |-> "", startX |-> 0, startY |-> 0,
             startBox |-> ZeroBox]

\* A pointer event of the window or of an overlay element: its type and the
\* grid point of clientX / clientY (0, 0 where the handler does not read it).
Event(type, kx, ky) == [type |-> type, x |-> kx, y |-> ky]
NoEvent == Event("none", 0, 0)

IdleGrid == [mode |-> "idle", tableIndex |-> -1, lineIndex |-> -1,
             startX |-> 0, startY |-> 0,
             startTable |-> Table(ZeroBox, <<>>, <<>>)]

BboxModes == {"drag", "resize-tl", "resize-tr", "resize-bl", "resize-br"}

\* Paths of overlay boxes that lodash get resolves (getAllBoxes gives the
\* boxes of the top-level fields a path that it does not resolve, so no
\* gesture starts on them).
Paths == {"shipper.fields.name.boundingBox", "lineItems[0].boundingBox"}

\* Array.prototype.sort((a, b) => a - b): ascending numeric order.
RECURSIVE InsertSorted(_, _)
InsertSorted(v, s) ==
    IF s = <<>> THEN <<v>>
    ELSE IF v <= Head(s) THEN <<v>> \o s
         ELSE <<Head(s)>> \o InsertSorted(v, Tail(s))

RECURSIVE SortAsc(_)
SortAsc(s) == IF s = <<>> THEN <<>> ELSE InsertSorted(Head(s), SortAsc(Tail(s)))

\* Array.prototype.splice(i, 1) with the 1-based index i.
Splice1(s, i) == [k \in 1..(Len(s) - 1) |-> IF k < i THEN s[k] ELSE s[k + 1]]

IsSorted(s) == \A i \in 1..(Len(s) - 1) : s[i] <= s[i + 1]

----------------------------------------------------------------------------
(* Screen geometry.  The page's top-left corner is the origin of client    *)
(* coordinates when the pan is {0, 0}.  Pointer positions are drawn on the *)
(* lattice of grid points, so that every quotient below is exact.          *)

\* Grid points the pointer visits: the diagonal of the page, one point off
\* the diagonal, and one point off the page.
PtrPoints == {<<0, 0>>, <<1, 1>>, <<2, 2>>, <<2, 0>>, <<-1, -1>>}

ToScreenX(k) == (k * scale * CanvasW) \div (ScaleOne * Grid)
ToScreenY(k) == (k * scale * CanvasH) \div (ScaleOne * Grid)

\* (e.clientX - startX) / scale / parseFloat(canvas.style.width), in grid units
NormDX(d) == (d * ScaleOne * Grid) \div (scale * CanvasW)
NormDY(d) == (d * ScaleOne * Grid) \div (scale * CanvasH)

\* Math.max(0, Math.min(1, v)) in grid units
Clamp01(v) == Max(0, Min(Grid, v))

\* The rectangle the overlay draws for a box: left = x1, top = y1,
\* width = x2 - x1, height = y2 - y1; a negative width or height is not
\* valid CSS and leaves an empty extent.
RightOf(b)  == Max(b.x1, b.x2)
BottomOf(b) == Max(b.y1, b.y2)

OverBox(b, kx, ky) ==
    /\ b.page = currentPage
    /\ b.x1 <= kx /\ kx <= RightOf(b)
    /\ b.y1 <= ky /\ ky <= BottomOf(b)

OverHandle(b, mode, kx, ky) ==
    /\ b.page = currentPage
    /\ kx = (IF mode \in {"resize-tl", "resize-bl"} THEN b.x1 ELSE RightOf(b))
    /\ ky = (IF mode \in {"resize-tl", "resize-tr"} THEN b.y1 ELSE BottomOf(b))


----------------------------------------------------------------------------
(* App callbacks, src/types.ts:245-282 *)

\* handleBoxUpdate: set(newData, path, newBox) on a copy of editedData
handleBoxUpdate(path, newBox) == [boxes EXCEPT ![path] = newBox]

\* handleTableUpdate: newTables[tableIndex] = newTableData on a copy
handleTableUpdate(tableIndex, newTable) ==
    [tables EXCEPT ![tableIndex] = newTable]

----------------------------------------------------------------------------
(* Box and gridline gestures, src/components/PdfViewer.tsx:218-308 *)

\* The switch of handleMouseMove: the snapshot plus the delta.
MovedBox(mode, b, dx, dy) ==
    CASE mode = "drag"      -> [b EXCEPT !.x1 = @ + dx, !.y1 = @ + dy,
                                         !.x2 = @ + dx, !.y2 = @ + dy]
      [] mode = "resize-tl" -> [b EXCEPT !.x1 = @ + dx, !.y1 = @ + dy]
      [] mode = "resize-tr" -> [b EXCEPT !.x2 = @ + dx, !.y1 = @ + dy]
      [] mode = "resize-bl" -> [b EXCEPT !.x1 = @ + dx, !.y2 = @ + dy]
      [] mode = "resize-br" -> [b EXCEPT !.x2 = @ + dx, !.y2 = @ + dy]
      [] OTHER              -> b

\* The two swaps that follow the switch (lines 266-267).
SwapBox(b) ==
    LET bx == IF b.x1 > b.x2 THEN [b EXCEPT !.x1 = b.x2, !.x2 = b.x1] ELSE b
    IN  IF bx.y1 > bx.y2 THEN [bx EXCEPT !.y1 = bx.y2, !.y2 = bx.y1] ELSE bx

\* The table a gridline pointer-move writes (lines 270-284).
MovedTable(g, clientX, clientY) ==
    IF g.mode = "drag-col"
    THEN [g.startTable EXCEPT !.columns[g.lineIndex] =
             Clamp01(g.startTable.columns[g.lineIndex] + NormDX(clientX - g.startX))]
    ELSE [g.startTable EXCEPT !.rows[g.lineIndex] =
             Clamp01(g.startTable.rows[g.lineIndex] + NormDY(clientY - g.startY))]

\* onMouseDown of a box (mode "drag") or of a corner handle of the active
\* box (a resize mode); the pointer is over the element that is pressed.
handleBboxMouseDown(path, mode, kx, ky) ==
    /\ nEvents < MaxEvents
    /\ IF mode = "drag" THEN OverBox(boxes[path], kx, ky)
       ELSE path = activeFieldPath /\ OverHandle(boxes[path], mode, kx, ky)
    /\ activeFieldPath' = path                       \* onBoxClick?.(path)
    /\ bboxInteraction' = [mode |-> mode, path |-> path,
                           startX |-> ToScreenX(kx), startY |-> ToScreenY(ky),
                           startBox |-> boxes[path]]
    /\ nEvents' = nEvents + 1
    /\ lastEvent' = Event("mousedown", kx, ky)
    /\ UNCHANGED <<boxes, tables, gridInteraction>>
    /\ UNCHANGED <<viewVars, renderVars, extractVars, otherVars>>

\* onMouseDown of a row or column separator of a table drawn on the
\* current page; the pointer is on that line.
handleGridMouseDown(mode, tableIndex, lineIndex, kx, ky) ==
    /\ nEvents < MaxEvents
    /\ tableIndex \in 1..Len(tables)
    /\ tables[tableIndex].boundingBox.page = currentPage
    /\ IF mode = "drag-row"
       THEN /\ lineIndex \in 1..Len(tables[tableIndex].rows)
            /\ ky = tables[tableIndex].rows[lineIndex]
            /\ kx \in 0..Grid
       ELSE /\ lineIndex \in 1..Len(tables[tableIndex].columns)
            /\ kx = tables[tableIndex].columns[lineIndex]
            /\ ky \in 0..Grid
    /\ gridInteraction' = [mode |-> mode, tableIndex |-> tableIndex,
                           lineIndex |-> lineIndex,
                           startX |-> ToScreenX(kx), startY |-> ToScreenY(ky),
                           startTable |-> tables[tableIndex]]
    /\ nEvents' = nEvents + 1
    /\ lastEvent' = Event("mousedown", kx, ky)
    /\ UNCHANGED <<boxes, tables, bboxInteraction, activeFieldPath>>
    /\ UNCHANGED <<viewVars, renderVars, extractVars, otherVars>>

\* The window's mousemove listener.
handleMouseMove(kx, ky) ==
    /\ nEvents < MaxEvents
    /\ \/ /\ bboxInteraction.mode # "idle"
          /\ LET b   == bboxInteraction
                 dx  == NormDX(ToScreenX(kx) - b.startX)
                 dy  == NormDY(ToScreenY(ky) - b.startY)
             IN  boxes' = handleBoxUpdate(b.path,
                              SwapBox(MovedBox(b.mode, b.startBox, dx, dy)))
          /\ UNCHANGED tables
       \/ /\ bboxInteraction.mode = "idle"
          /\ gridInteraction.mode # "idle"
          /\ tables' = handleTableUpdate(gridInteraction.tableIndex,
                           MovedTable(gridInteraction, ToScreenX(kx), ToScreenY(ky)))
          /\ UNCHANGED boxes
    /\ nEvents' = nEvents + 1
    /\ lastEvent' = Event("mousemove", kx, ky)
    /\ UNCHANGED <<bboxInteraction, gridInteraction, activeFieldPath>>
    /\ UNCHANGED <<viewVars, renderVars, extractVars, otherVars>>

\* The table handleMouseUp writes back: a copy with both arrays sorted.
FinalTable(t) == [t EXCEPT !.rows = SortAsc(t.rows), !.columns = SortAsc(t.columns)]

\* The window's mouseup listener.
handleMouseUp ==
    /\ nEvents < MaxEvents
    /\ bboxInteraction.mode # "idle" \/ gridInteraction.mode # "idle"
    /\ IF /\ gridInteraction.mode \in {"drag-row", "drag-col"}
          /\ gridInteraction.tableIndex \in 1..Len(tables)
       THEN tables' = handleTableUpdate(gridInteraction.tableIndex,
                          FinalTable(tables[gridInteraction.tableIndex]))
       ELSE UNCHANGED tables
    /\ bboxInteraction' = IdleBbox
    /\ gridInteraction' = IdleGrid
    /\ nEvents' = nEvents + 1
    /\ lastEvent' = Event("mouseup", 0, 0)
    /\ UNCHANGED <<boxes, activeFieldPath>>
    /\ UNCHANGED <<viewVars, renderVars, extractVars, otherVars>>

----------------------------------------------------------------------------
(* Table grid editing, src/components/PdfViewer.tsx:198-216 and 310-344 *)

NoCoords == [off |-> TRUE]

\* canvas.parentElement is the div styled translate(transform.x, transform.y)
\* scale(scale) with its origin at the top left (lines 397-400), and
\* getBoundingClientRect reports an element as transformed: the left and top
\* of its rectangle are where the element is laid out, taken as the origin of
\* the client coordinates, moved by the pan.
RectLeft == transform.x
RectTop  == transform.y

\* clientX and clientY of a pointer over the point (kx, ky) of the page.
ClientX(kx) == RectLeft + ToScreenX(kx)
ClientY(ky) == RectTop + ToScreenY(ky)

\* screenToPdfCoords; rectLeft and rectTop are the bounding rectangle of the
\* canvas's parent.
screenToPdfCoords(screenX, screenY, rectLeft, rectTop) ==
    LET pdfX == ((screenX - rectLeft - transform.x) * ScaleOne * Grid)
                    \div (scale * CanvasW)
        pdfY == ((screenY - rectTop - transform.y) * ScaleOne * Grid)
                    \div (scale * CanvasH)
    IN  IF pdfX < 0 \/ pdfX > Grid \/ pdfY < 0 \/ pdfY > Grid
        THEN NoCoords
        ELSE [off |-> FALSE, x |-> pdfX, y |-> pdfY]

InTable(t, c) ==
    /\ c.x >= t.boundingBox.x1 /\ c.x <= t.boundingBox.x2
    /\ c.y >= t.boundingBox.y1 /\ c.y <= t.boundingBox.y2

\* The table a double-click at c writes for table t.
InsertedTable(t, c, altKey) ==
    IF altKey THEN [t EXCEPT !.columns = SortAsc(Append(t.columns, c.x))]
    ELSE [t EXCEPT !.rows = SortAsc(Append(t.rows, c.y))]

\* onDoubleClick of the container.  The browser delivers dblclick after the
\* mouseup of the second click, which handleMouseUp has served.
handleDoubleClick(kx, ky, altKey) ==
    /\ nEvents < MaxEvents
    /\ bboxInteraction.mode = "idle" /\ gridInteraction.mode = "idle"
    /\ LET c == screenToPdfCoords(ClientX(kx), ClientY(ky), RectLeft, RectTop)
       IN  /\ ~c.off
           /\ \E i \in 1..Len(tables) :
                 /\ InTable(tables[i], c)
                 /\ \A j \in 1..(i - 1) : ~InTable(tables[j], c)
                 /\ Len(IF altKey THEN tables[i].columns ELSE tables[i].rows)
                        < MaxLines
                 /\ tables' = handleTableUpdate(i, InsertedTable(tables[i], c, altKey))
    /\ nEvents' = nEvents + 1
    /\ lastEvent' = Event("dblclick", kx, ky)
    /\ UNCHANGED <<boxes, bboxInteraction, gridInteraction, activeFieldPath>>
    /\ UNCHANGED <<viewVars, renderVars, extractVars, otherVars>>

\* The table handleDeleteLine writes.
DeletedTable(t, type, lineIndex) ==
    IF type = "row" THEN [t EXCEPT !.rows = Splice1(t.rows, lineIndex)]
    ELSE [t EXCEPT !.columns = Splice1(t.columns, lineIndex)]

\* onClick of the delete button of a separator drawn on the current page.
handleDeleteLine(tableIndex, type, lineIndex) ==
    /\ nEvents < MaxEvents
    /\ tableIndex \in 1..Len(tables)
    /\ tables[tableIndex].boundingBox.page = currentPage
    /\ lineIndex \in 1..Len(IF type = "row" THEN tables[tableIndex].rows
                            ELSE tables[tableIndex].columns)
    /\ tables' = handleTableUpdate(tableIndex,
                     DeletedTable(tables[tableIndex], type, lineIndex))
    /\ nEvents' = nEvents + 1
    /\ lastEvent' = Event("click", 0, 0)
    /\ UNCHANGED <<boxes, bboxInteraction, gridInteraction, activeFieldPath>>
    /\ UNCHANGED <<viewVars, renderVars, extractVars, otherVars>>

----------------------------------------------------------------------------
(* Page rendering and zooming, src/components/PdfViewer.tsx:56-96, 124-196 *)
(*                                                                         *)
(* A renderPage invocation is a record [id, page, pc]: pc = "getPage"      *)
(* while it awaits pdfDoc.getPage, pc = "render" while it awaits the       *)
(* promise of the render task it started.  An invocation that has returned *)
(* leaves the set.  A render task is in flight while its invocation is at  *)
(* "render".                                                               *)

MaxCalls == 3     \* renderPage invocations in one behaviour

MaxZoom         == 5000  \* Math.min(scaleX, scaleY, 5), in thousandths
ZoomTargetTenths == 3    \* Math.min(containerWidth, containerHeight) * 0.3

\* containerRef.current.clientWidth / clientHeight.  renderPage sizes the
\* canvas style to the container's width.
ContainerW == CanvasW
ContainerH == CanvasH

NoPan == [x |-> 0, y |-> 0]

\* pendingZoomRef.current = null; pages are numbered from 1.
NoBox == Box(0, 0, 0, 0, 0)

\* No zoomToBox call yet.
NoZoomReq == [box |-> NoBox, otherPage |-> FALSE, applied |-> 0, seq |-> 0]

\* Ten times targetBoxDisplaySize (line 69).
Target10 == Min(ContainerW, ContainerH) * ZoomTargetTenths

\* newScale (lines 71-73) for a box of that width and height on the screen
\* at scale 1, both in Grid-ths of a pixel; a scale is a number of
\* thousandths.
fitScale(boxWidth, boxHeight) ==
    LET scaleX == IF boxWidth > 0
                  THEN (Target10 * 100 * Grid) \div boxWidth
                  ELSE ScaleOne
        scaleY == IF boxHeight > 0
                  THEN (Target10 * 100 * Grid) \div boxHeight
                  ELSE ScaleOne
    IN  Min(Min(scaleX, scaleY), MaxZoom)

\* performZoom if it fitted the dimension of the box that is the longer in
\* fractions of the page.
performZoomByFraction(box) ==
    IF canvasPage = 0 THEN [scale |-> scale, transform |-> transform]
    ELSE
      LET dw       == box.x2 - box.x1
          dh       == box.y2 - box.y1
          longer   == IF dw >= dh THEN dw * CanvasW ELSE dh * CanvasH
          newScale == fitScale(longer, longer)
          newX     == (ContainerW * Grid * ScaleOne
                         - (box.x1 + box.x2) * CanvasW * newScale)
                        \div (2 * Grid * ScaleOne)
          newY     == (ContainerH * Grid * ScaleOne
                         - (box.y1 + box.y2) * CanvasH * newScale)
                        \div (2 * Grid * ScaleOne)
      IN  [scale |-> newScale, transform |-> [x |-> newX, y |-> newY]]

\* performZoom if it multiplied the current scale by the factor that fits
\* the box, and panned by the box's centre at that scale.
performZoomRelative(box) ==
    IF canvasPage = 0 THEN [scale |-> scale, transform |-> transform]
    ELSE
      LET dw       == box.x2 - box.x1
          dh       == box.y2 - box.y1
          target10 == Min(ContainerW, ContainerH) * ZoomTargetTenths
          scaleX   == IF dw > 0
                      THEN (target10 * 100 * Grid) \div (dw * CanvasW)
                      ELSE ScaleOne
          scaleY   == IF dh > 0
                      THEN (target10 * 100 * Grid) \div (dh * CanvasH)
                      ELSE ScaleOne
          newScale == Min((scale * Min(scaleX, scaleY)) \div ScaleOne, MaxZoom)
          newX     == (ContainerW * Grid * ScaleOne
                         - (box.x1 + box.x2) * CanvasW * newScale)
                        \div (2 * Grid * ScaleOne)
          newY     == (ContainerH * Grid * ScaleOne
                         - (box.y1 + box.y2) * CanvasH * newScale)
                        \div (2 * Grid * ScaleOne)
      IN  [scale |-> newScale, transform |-> [x |-> newX, y |-> newY]]

\* The scale and pan performZoom(box) sets, or the current ones when it
\* returns early because the canvas has no style width yet.
performZoom(box) ==
    IF canvasPage = 0 THEN [scale |-> scale, transform |-> transform]
    ELSE
      LET newScale == fitScale((box.x2 - box.x1) * CanvasW,
                               (box.y2 - box.y1) * CanvasH)
          newX     == (ContainerW * Grid * ScaleOne
                         - (box.x1 + box.x2) * CanvasW * newScale)
                        \div (2 * Grid * ScaleOne)
          newY     == (ContainerH * Grid * ScaleOne
                         - (box.y1 + box.y2) * CanvasH * newScale)
                        \div (2 * Grid * ScaleOne)
      IN  [scale |-> newScale, transform |-> [x |-> newX, y |-> newY]]

InFlight == {c \in calls : c.pc = "render"}

\* renderTask.current.cancel(): the task's promise rejects with
\* RenderingCancelled, and the invocation awaiting it runs its catch and its
\* last line, renderTask.current = null, in the microtask that follows the
\* running callback; then it has returned.
AfterCancel(cs, ref) ==
    IF ref = 0 THEN [calls |-> cs, ref |-> 0]
    ELSE [calls |-> {c \in cs : c.id # ref}, ref |-> 0]

\* renderPage(pageNum) up to its first await: cancel the task the ref holds,
\* then wait for the page.
renderPageStart(cs, ref, pageNum) ==
    LET ac == AfterCancel(cs, ref)
    IN  [calls |-> ac.calls \cup {[id |-> nCalls + 1, page |-> pageNum,
                                    pc |-> "getPage"]},
         ref |-> ac.ref]

\* The render effect after setCurrentPage(newPage): the cleanup of the old
\* effect (it removes the resize listener and cancels the ref's task, and
\* leaves an armed timeout armed), then doRender() of the new one.
PageChangeEffect(newPage) ==
    LET ac == AfterCancel(calls, renderTask)
        st == renderPageStart(ac.calls, ac.ref, newPage)
    IN  /\ nCalls < MaxCalls
        /\ currentPage' = newPage
        /\ calls' = st.calls
        /\ renderTask' = st.ref
        /\ nCalls' = nCalls + 1
        /\ staleTimers' = IF curTimer THEN staleTimers \cup {currentPage}
                          ELSE staleTimers
        /\ curTimer' = FALSE

\* zoomToBox if it zoomed at call time whatever the box's page.
zoomToBoxAtOnce(box) ==
    /\ scale' = performZoom(box).scale
    /\ transform' = performZoom(box).transform
    /\ IF box.page # currentPage
       THEN /\ pendingZoomRef' = box
            /\ PageChangeEffect(box.page)
            /\ UNCHANGED canvasPage
       ELSE UNCHANGED <<currentPage, calls, renderTask, nCalls, staleTimers,
                        curTimer, pendingZoomRef, canvasPage>>
    /\ zoomReq' = [box |-> box, otherPage |-> box.page # currentPage,
                   applied |-> 0, seq |-> 1 - zoomReq.seq]
    /\ UNCHANGED <<gestureVars, extractVars, otherVars>>

\* The imperative handle (lines 87-96).  zoomReq remembers the call: its
\* box, whether the box was on another page, how often its deferred zoom has
\* been applied since, and a bit that flips with every call.
zoomToBoxOfHandle(box) ==
    /\ IF box.page # currentPage
       THEN /\ pendingZoomRef' = box
            /\ PageChangeEffect(box.page)
            /\ UNCHANGED <<scale, transform, canvasPage>>
       ELSE /\ scale' = performZoom(box).scale
            /\ transform' = performZoom(box).transform
            /\ UNCHANGED <<currentPage, calls, renderTask, nCalls, staleTimers,
                           curTimer, pendingZoomRef, canvasPage>>
    /\ zoomReq' = [box |-> box, otherPage |-> box.page # currentPage,
                   applied |-> 0, seq |-> 1 - zoomReq.seq]

\* A call of the handle that is not part of a larger handler.
zoomToBox(box) ==
    /\ zoomToBoxOfHandle(box)
    /\ UNCHANGED <<gestureVars, extractVars, otherVars>>

\* The Prev and Next buttons (lines 472-486).
setCurrentPage(newPage) ==
    /\ newPage \in 1..NumPages
    /\ newPage # currentPage
    /\ PageChangeEffect(newPage)
    /\ UNCHANGED <<scale, transform, pendingZoomRef, canvasPage, zoomReq>>
    /\ UNCHANGED <<gestureVars, extractVars, otherVars>>

\* pdfDoc.getPage resolves: size the canvas, start the render task and
\* store it in the ref (lines 130-151).
getPageResolves(c) ==
    /\ c \in calls /\ c.pc = "getPage"
    /\ canvasPage' = c.page
    /\ renderTask' = c.id
    /\ calls' = (calls \ {c}) \cup {[c EXCEPT !.pc = "render"]}
    /\ UNCHANGED <<currentPage, scale, transform, pendingZoomRef, curTimer,
                   staleTimers, nCalls, zoomReq>>
    /\ UNCHANGED <<gestureVars, extractVars, otherVars>>

\* The render task's promise resolves (lines 153-163).
renderCompletes(c) ==
    /\ c \in calls /\ c.pc = "render"
    /\ IF pendingZoomRef # NoBox /\ pendingZoomRef.page = c.page
       THEN /\ scale' = performZoom(pendingZoomRef).scale
            /\ transform' = performZoom(pendingZoomRef).transform
            /\ pendingZoomRef' = NoBox
            /\ zoomReq' = IF zoomReq.otherPage
                             /\ zoomReq.box = pendingZoomRef
                          THEN [zoomReq EXCEPT !.applied = @ + 1]
                          ELSE zoomReq
       ELSE UNCHANGED <<scale, transform, pendingZoomRef, zoomReq>>
    /\ renderTask' = 0
    /\ calls' = calls \ {c}
    /\ UNCHANGED <<currentPage, canvasPage, curTimer, staleTimers, nCalls>>
    /\ UNCHANGED <<gestureVars, extractVars, otherVars>>

\* The render task's promise rejects with an error other than a
\* cancellation (lines 158-163).
renderFails(c) ==
    /\ c \in calls /\ c.pc = "render"
    /\ renderTask' = 0
    /\ calls' = calls \ {c}
    /\ UNCHANGED <<currentPage, scale, transform, pendingZoomRef, canvasPage,
                   curTimer, staleTimers, nCalls, zoomReq>>
    /\ UNCHANGED <<gestureVars, extractVars, otherVars>>

\* A resize event of the window: handleResize of the live effect clears its
\* timeout and arms it again (lines 176-184).
handleResize ==
    /\ ~curTimer
    /\ curTimer' = TRUE
    /\ UNCHANGED <<currentPage, scale, transform, calls, renderTask,
                   pendingZoomRef, canvasPage, staleTimers, nCalls, zoomReq>>
    /\ UNCHANGED <<gestureVars, extractVars, otherVars>>

\* An armed timeout fires: handleResetZoom(); doRender() with the page its
\* effect captured (lines 180-183).
timeoutFires(live, page) ==
    LET st == renderPageStart(calls, renderTask, page)
    IN  /\ nCalls < MaxCalls
        /\ IF live THEN curTimer /\ page = currentPage
                   ELSE page \in staleTimers
        /\ scale' = ScaleOne
        /\ transform' = NoPan
        /\ calls' = st.calls
        /\ renderTask' = st.ref
        /\ nCalls' = nCalls + 1
        /\ curTimer' = IF live THEN FALSE ELSE curTimer
        /\ staleTimers' = IF live THEN staleTimers ELSE staleTimers \ {page}
        /\ UNCHANGED <<currentPage, pendingZoomRef, canvasPage, zoomReq>>
        /\ UNCHANGED <<gestureVars, extractVars, otherVars>>

MaxShownScale == 6000   \* the Zoom In button is not pressed beyond 6x

\* The Zoom In and Zoom Out buttons (lines 382-383).
handleZoomIn ==
    /\ (scale * 12) \div 10 <= MaxShownScale
    /\ scale' = (scale * 12) \div 10
    /\ UNCHANGED <<currentPage, transform, renderVars>>
    /\ UNCHANGED <<gestureVars, extractVars, otherVars>>

handleZoomOut ==
    /\ scale' = Max(MinScale, (scale * 10) \div 12)
    /\ UNCHANGED <<currentPage, transform, renderVars>>
    /\ UNCHANGED <<gestureVars, extractVars, otherVars>>

\* The Reset View button (lines 166-169).
handleResetZoom ==
    /\ scale' = ScaleOne
    /\ transform' = NoPan
    /\ UNCHANGED <<currentPage, renderVars>>
    /\ UNCHANGED <<gestureVars, extractVars, otherVars>>

----------------------------------------------------------------------------
(* Template reconciliation, src/services/geminiService.ts:377-453          *)
(*                                                                         *)
(* Strings the code transforms are sequences of one-character strings.     *)
(* A confidence is a number of hundredths, Undefined when the key is       *)
(* absent.  An InvoiceData is modelled by the parts reconciliation reads   *)
(* or writes and by a field it must leave alone:                           *)
(*   [invoiceNumber, shipper |-> [name, fields |-> [name]],                *)
(*    fields |-> [invoiceNumber, currency], lineItems, tables]             *)
(* with line items [hsCode, fields |-> [hsCode]].                          *)

MaxTemplates == 2   \* saved templates handed to a call
MaxRespPages == 2   \* page entries of a response
MaxExtracts == 2    \* extractions started in one behaviour
MaxLoads == 2       \* document loads started in one behaviour
MaxItems == 1       \* line items of the data shown
MaxSelections == 2  \* files selected in one behaviour of the App
MaxTemplateOps == 2 \* templates the App saves, updates or deletes

Boosted               == 99  \* obj.confidence = 0.99
DegradedInvoiceNumber == 78  \* fields.invoiceNumber.confidence = 0.78
DegradedHsCode        == 65  \* lineItems[0].fields.hsCode.confidence = 0.65

Undefined == -1

\* A FieldMetadata object, and the absence of one.
Meta(c, b) == [present |-> TRUE, confidence |-> c, boundingBox |-> b]
NoMeta == [present |-> FALSE, confidence |-> Undefined, boundingBox |-> NoBox]

Lower(ch) == CASE ch = "A" -> "a" [] ch = "B" -> "b" [] OTHER -> ch

toLowerCase(str) == [i \in DOMAIN str |-> Lower(str[i])]

\* String.prototype.replace with a string pattern: the first occurrence.
Occurrences(str, pat) ==
    {i \in 1..(Len(str) - Len(pat) + 1) : SubSeq(str, i, i + Len(pat) - 1) = pat}

replace(str, pat, rep) ==
    IF Occurrences(str, pat) = {} THEN str
    ELSE LET i == CHOOSE k \in Occurrences(str, pat) :
                      \A j \in Occurrences(str, pat) : k <= j
         IN  SubSeq(str, 1, i - 1) \o rep \o SubSeq(str, i + Len(pat), Len(str))

\* degradeInvoiceData if it lowered the two confidences and changed no value.
degradeConfidenceOnly(data) ==
    LET d1 == [data EXCEPT !.fields.invoiceNumber =
                               Meta(DegradedInvoiceNumber, @.boundingBox)]
    IN  IF Len(data.lineItems) > 0
        THEN [d1 EXCEPT !.lineItems[1].fields.hsCode.confidence = DegradedHsCode]
        ELSE d1

\* Lines 381-390.  The function throws (a TypeError at line 387) when the
\* first line item has no fields.hsCode.
degradeThrows(data) ==
    Len(data.lineItems) > 0 /\ ~data.lineItems[1].fields.hsCode.present

degradeInvoiceData(data) ==
    LET d1 == [data EXCEPT
                 !.invoiceNumber = replace(@, <<"0", "0", "1">>, <<"O", "0", "1">>),
                 !.fields.invoiceNumber =
                     Meta(DegradedInvoiceNumber, @.boundingBox)]
    IN  IF Len(data.lineItems) > 0
        THEN [d1 EXCEPT !.lineItems[1].hsCode = "8471.3O.OO",
                        !.lineItems[1].fields.hsCode.confidence = DegradedHsCode]
        ELSE d1

\* The boost if it moved a truthy confidence halfway to 1.
boostMetaHalfway(m) ==
    IF m.present /\ m.confidence # Undefined /\ m.confidence # 0
    THEN [m EXCEPT !.confidence = (@ + 100) \div 2]
    ELSE m

\* Lines 393-404: every object of the copy with a truthy confidence.
boostMeta(m) ==
    IF m.present /\ m.confidence # Undefined /\ m.confidence # 0
    THEN [m EXCEPT !.confidence = Boosted]
    ELSE m

boostConfidence(data) ==
    [data EXCEPT
       !.fields.invoiceNumber = boostMeta(@),
       !.fields.currency = boostMeta(@),
       !.shipper.fields.name = boostMeta(@),
       !.lineItems = [i \in DOMAIN @ |->
                        [@[i] EXCEPT !.fields.hsCode = boostMeta(@)]]]

\* templateApplied: a vendor name or null.
Applied(name) == [isNull |-> FALSE, name |-> name]
NotApplied == [isNull |-> TRUE, name |-> <<>>]

Invoice(num, numMeta, shipperName, items, tbls) ==
    [invoiceNumber |-> num,
     shipper |-> [name |-> shipperName,
                  fields |-> [name |-> IF shipperName = <<>> THEN Meta(Undefined, NoBox)
                                       ELSE Meta(99, Box(1, 0, 1, 1, 2))]],
     fields |-> [invoiceNumber |-> numMeta,
                 currency |-> Meta(95, Box(1, 2, 2, 3, 3))],
     lineItems |-> items,
     tables |-> tbls]

EmptyInvoice == Invoice(<<>>, NoMeta, <<>>, <<>>, <<>>)

\* transformModelResponseToInvoiceData returned null / an InvoiceData.
NullExtraction == [isNull |-> TRUE, data |-> EmptyInvoice]
Extraction(data) == [isNull |-> FALSE, data |-> data]

Resolved(data, applied) ==
    [status |-> "resolved", data |-> data, templateApplied |-> applied]
Rejected == [status |-> "rejected", data |-> EmptyInvoice, templateApplied |-> NotApplied]
NoResult == [status |-> "pending", data |-> EmptyInvoice, templateApplied |-> NotApplied]

\* The match if it compared the names as they are.
MatchesExactly(t, vendorName) == t.vendorName = vendorName

\* templates.find(t => t.vendorName.toLowerCase() === vendorName.toLowerCase()):
\* the index of the first match, 0 for undefined.
Matches(t, vendorName) == toLowerCase(t.vendorName) = toLowerCase(vendorName)

findMatch(templates, vendorName) ==
    LET hits == {i \in DOMAIN templates : Matches(templates[i], vendorName)}
    IN  IF hits = {} THEN 0
        ELSE CHOOSE i \in hits : \A j \in hits : i <= j

\* extractInvoiceData if it tried the automatic match before the
\* preselected template.
extractMatchFirst(templates, loaded, extracted) ==
    IF extracted.isNull THEN Rejected
    ELSE LET m == findMatch(templates, extracted.data.shipper.name)
         IN  IF m # 0
             THEN Resolved(boostConfidence(templates[m].invoiceData),
                           Applied(templates[m].vendorName))
             ELSE IF loaded # 0
             THEN Resolved(boostConfidence(templates[loaded].invoiceData),
                           Applied(templates[loaded].vendorName))
             ELSE IF degradeThrows(extracted.data) THEN Rejected
             ELSE Resolved(degradeInvoiceData(extracted.data), NotApplied)

\* Lines 407-453.  loaded is an index into templates, 0 for null.
extractInvoiceData(templates, loaded, extracted) ==
    IF extracted.isNull THEN Rejected
    ELSE IF loaded # 0
    THEN Resolved(boostConfidence(templates[loaded].invoiceData),
                  Applied(templates[loaded].vendorName))
    ELSE LET m == findMatch(templates, extracted.data.shipper.name)
         IN  IF m # 0
             THEN Resolved(boostConfidence(templates[m].invoiceData),
                           Applied(templates[m].vendorName))
             ELSE IF degradeThrows(extracted.data) THEN Rejected
             ELSE Resolved(degradeInvoiceData(extracted.data), NotApplied)

\* The call, from its arguments to its settled promise.
ExtractInvoiceData ==
    /\ exResult.status = "pending"
    /\ exResult' = extractInvoiceData(exTemplates, exLoaded, exExtracted)
    /\ UNCHANGED <<exTemplates, exLoaded, exExtracted>>
    /\ UNCHANGED <<gestureVars, viewVars, renderVars, otherVars>>

----------------------------------------------------------------------------
(* The normalizer: transformModelResponseToInvoiceData                      *)
(* (src/services/geminiService.ts:272-375).                                 *)
(*                                                                          *)
(* A response is results[0].page_data, a sequence of page entries.  Every   *)
(* text is a sequence of characters.  Pixel coordinates are integers; a     *)
(* normalized coordinate pixel / dimension is held in grid units, that is   *)
(* (pixel * Grid) \div dimension, like every other coordinate of the model. *)

\* A prediction or a table cell: the attributes the normalizer reads.
Pred(label, text, score, xmin, ymin, xmax, ymax) ==
    [defined |-> TRUE, label |-> label, ocr_text |-> text, score |-> score,
     xmin |-> xmin, ymin |-> ymin, xmax |-> xmax, ymax |-> ymax,
     page |-> Undefined, rows |-> <<>>, columns |-> <<>>, row |-> 0]

GridPred(page, xmin, ymin, xmax, ymax, rows, columns) ==
    [Pred("table_grid", <<>>, Undefined, xmin, ymin, xmax, ymax) EXCEPT
        !.page = page, !.rows = rows, !.columns = columns]

Cell(row, label, text, score, xmin, ymin, xmax, ymax) ==
    [Pred(label, text, score, xmin, ymin, xmax, ymax) EXCEPT !.row = row]

\* What Array.prototype.find returns when nothing matches.
UndefinedField ==
    [Pred("", <<>>, Undefined, 0, 0, 0, 0) EXCEPT !.defined = FALSE]

\* One entry of page_data; either list may be missing from the entry.
PageEntry(hasPrediction, prediction, hasTables, tbls) ==
    [hasPrediction |-> hasPrediction, prediction |-> prediction,
     hasTables |-> hasTables, tables |-> tbls]

RespTable(label, cells) == [label |-> label, cells |-> cells]

\* Line 280: prediction.find(p => p.label === label), prediction being the
\* list of page_data[0] (lines 277).
findField(prediction, label) ==
    LET S == {i \in 1..Len(prediction) : prediction[i].label = label}
    IN  IF S = {} THEN UndefinedField
        ELSE prediction[CHOOSE i \in S : \A j \in S : i <= j]

\* pageDimensions[pageNum], pageNum counted from zero.
HasDim(pageDimensions, pageNum) ==
    pageNum >= 0 /\ pageNum + 1 <= Len(pageDimensions)

\* normalizeBbox if it divided every coordinate by the page height.
normalizeBboxByHeight(pageDimensions, field, pageNum) ==
    IF ~field.defined \/ ~HasDim(pageDimensions, pageNum) THEN NoBox
    ELSE LET height == pageDimensions[pageNum + 1].height
         IN  Box(pageNum + 1,
                 (field.xmin * Grid) \div height, (field.ymin * Grid) \div height,
                 (field.xmax * Grid) \div height, (field.ymax * Grid) \div height)

\* normalizeBbox if it kept the zero-based page number of the response.
normalizeBboxZeroBased(pageDimensions, field, pageNum) ==
    IF ~field.defined \/ ~HasDim(pageDimensions, pageNum) THEN NoBox
    ELSE LET width  == pageDimensions[pageNum + 1].width
             height == pageDimensions[pageNum + 1].height
         IN  Box(pageNum,
                 (field.xmin * Grid) \div width, (field.ymin * Grid) \div height,
                 (field.xmax * Grid) \div width, (field.ymax * Grid) \div height)

\* Lines 282-292; undefined is NoBox.
normalizeBbox(pageDimensions, field, pageNum) ==
    IF ~field.defined \/ ~HasDim(pageDimensions, pageNum) THEN NoBox
    ELSE LET width  == pageDimensions[pageNum + 1].width
             height == pageDimensions[pageNum + 1].height
         IN  Box(pageNum + 1,
                 (field.xmin * Grid) \div width, (field.ymin * Grid) \div height,
                 (field.xmax * Grid) \div width, (field.ymax * Grid) \div height)

\* Lines 294-297: always an object, its two members possibly undefined.
createFieldMetadata(pageDimensions, field, pageNum) ==
    Meta(IF field.defined THEN field.score ELSE Undefined,
         normalizeBbox(pageDimensions, field, pageNum))

\* field?.ocr_text || ''
TextOf(field) == IF field.defined THEN field.ocr_text ELSE <<>>

IsDigit(ch) == ch \in {"0", "1", "2", "3", "4", "5", "6", "7", "8", "9"}

DigitValue(ch) ==
    CASE ch = "0" -> 0 [] ch = "1" -> 1 [] ch = "2" -> 2 [] ch = "3" -> 3
      [] ch = "4" -> 4 [] ch = "5" -> 5 [] ch = "6" -> 6 [] ch = "7" -> 7
      [] ch = "8" -> 8 [] ch = "9" -> 9

\* parseFloat(text) || 0 on texts without sign, point or exponent: the
\* value of the longest prefix of digits, 0 when there is none (NaN || 0).
RECURSIVE ParseDigits(_, _)
ParseDigits(str, acc) ==
    IF str = <<>> \/ ~IsDigit(Head(str)) THEN acc
    ELSE ParseDigits(Tail(str), 10 * acc + DigitValue(Head(str)))

parseFloatOr0(str) == ParseDigits(str, 0)

\* String(value).replace(/,/g, '')
removeCommas(str) == SelectSeq(str, LAMBDA ch : ch # ",")

\* Lines 339-346; "" stands for undefined.
fieldMapping(label) ==
    CASE label = "description"       -> "description"
      [] label = "quantity"          -> "quantity"
      [] label = "unit_price"        -> "unitPrice"
      [] label = "total_price"       -> "totalPrice"
      [] label = "country_of_origin" -> "countryOfOrigin"
      [] label = "hs_code"           -> "hsCode"
      [] OTHER                       -> ""

PropNames == {"description", "quantity", "unitPrice", "totalPrice",
              "countryOfOrigin", "hsCode"}
NumericProps == {"quantity", "unitPrice", "totalPrice"}

\* Lines 335-357 for one row: the object rows[r] after every cell was
\* served.  It starts as {fields: {}} and gets a key only from a cell of
\* that row (the last such cell wins); keys is the set of its own scalar
\* keys, and a key it lacks is shown with a placeholder and NoMeta.
RowObject(pageDimensions, cells, r) ==
    LET At(p) == {i \in 1..Len(cells) :
                     cells[i].row = r /\ fieldMapping(cells[i].label) = p}
        Last(p) == cells[CHOOSE i \in At(p) : \A j \in At(p) : j <= i]
        text(p) == IF At(p) = {} THEN <<>> ELSE Last(p).ocr_text
        num(p)  == IF At(p) = {} THEN 0
                   ELSE parseFloatOr0(removeCommas(Last(p).ocr_text))
    IN  [keys |-> {p \in PropNames : At(p) # {}},
         description |-> text("description"),
         quantity |-> num("quantity"),
         unitPrice |-> num("unitPrice"),
         totalPrice |-> num("totalPrice"),
         countryOfOrigin |-> text("countryOfOrigin"),
         hsCode |-> text("hsCode"),
         fields |-> [p \in PropNames |->
                        IF At(p) = {} THEN NoMeta
                        ELSE createFieldMetadata(pageDimensions, Last(p), 0)]]

\* Object.values(rows): integer keys come in ascending order.
RECURSIVE RowsInOrder(_, _, _)
RowsInOrder(pageDimensions, cells, keys) ==
    IF keys = {} THEN <<>>
    ELSE LET r == CHOOSE k \in keys : \A j \in keys : k <= j
         IN  <<RowObject(pageDimensions, cells, r)>>
                 \o RowsInOrder(pageDimensions, cells, keys \ {r})

\* Lines 333-359.
lineItemsOf(pageDimensions, tbls) ==
    LET S == {i \in 1..Len(tbls) : tbls[i].label = "line_items"}
    IN  IF S = {} THEN <<>>
        ELSE LET cells == tbls[CHOOSE i \in S : \A j \in S : i <= j].cells
             IN  RowsInOrder(pageDimensions, cells,
                             {cells[i].row : i \in 1..Len(cells)})

\* Lines 361-372: the first table_grid prediction of the list, placed on the
\* page its own page attribute names (page || 0).
tablesOf(pageDimensions, prediction) ==
    LET tableGridPrediction == findField(prediction, "table_grid")
        pg == IF tableGridPrediction.page = Undefined THEN 0
              ELSE tableGridPrediction.page
    IN  IF ~tableGridPrediction.defined \/ ~HasDim(pageDimensions, pg) THEN <<>>
        ELSE LET pageDim == pageDimensions[pg + 1]
             IN  <<Table(normalizeBbox(pageDimensions, tableGridPrediction, pg),
                         [i \in DOMAIN tableGridPrediction.rows |->
                            (tableGridPrediction.rows[i] * Grid) \div pageDim.height],
                         [i \in DOMAIN tableGridPrediction.columns |->
                            (tableGridPrediction.columns[i] * Grid) \div pageDim.width])>>

\* Lines 316-331: a Party.
partyOf(pageDimensions, prediction, nameLabel, addressLabel) ==
    [name |-> TextOf(findField(prediction, nameLabel)),
     address |-> TextOf(findField(prediction, addressLabel)),
     fields |-> [name |-> createFieldMetadata(pageDimensions,
                                findField(prediction, nameLabel), 0),
                 address |-> createFieldMetadata(pageDimensions,
                                findField(prediction, addressLabel), 0)]]

\* Lines 299-374: the InvoiceData built from the lists of page_data[0].
invoiceDataOf(pageDimensions, prediction, tbls) ==
    [invoiceNumber |-> TextOf(findField(prediction, "invoice_id")),
     invoiceDate |-> TextOf(findField(prediction, "invoice_date")),
     shipper |-> partyOf(pageDimensions, prediction,
                         "shipper_name", "shipper_address"),
     consignee |-> partyOf(pageDimensions, prediction,
                           "consignee_name", "consignee_address"),
     totalDeclaredValue |->
         parseFloatOr0(TextOf(findField(prediction, "total_amount"))),
     currency |-> TextOf(findField(prediction, "currency")),
     lineItems |-> lineItemsOf(pageDimensions, tbls),
     tables |-> tablesOf(pageDimensions, prediction),
     fields |->
        [invoiceNumber |-> createFieldMetadata(pageDimensions,
                               findField(prediction, "invoice_id"), 0),
         invoiceDate |-> createFieldMetadata(pageDimensions,
                               findField(prediction, "invoice_date"), 0),
         totalDeclaredValue |-> createFieldMetadata(pageDimensions,
                               findField(prediction, "total_amount"), 0),
         currency |-> createFieldMetadata(pageDimensions,
                               findField(prediction, "currency"), 0)]]

NoData == invoiceDataOf(<<>>, <<>>, <<>>)

\* How a call of the normalizer ends.
Returned(data) == [status |-> "returned", data |-> data]
ReturnedNull   == [status |-> "null", data |-> NoData]
Thrown         == [status |-> "thrown", data |-> NoData]
NoOutput       == [status |-> "pending", data |-> NoData]

\* Lines 272-375.  Line 276 returns null when there is no first page
\* entry; prediction.find (line 280, first called at line 300) and
\* tables.find (line 333) throw a TypeError when the list is missing from
\* the first entry.  No entry after the first is read.
transformModelResponseToInvoiceData(modelResponse, pageDimensions) ==
    IF Len(modelResponse) = 0 THEN ReturnedNull
    ELSE LET page0 == modelResponse[1]
         IN  IF ~page0.hasPrediction \/ ~page0.hasTables THEN Thrown
             ELSE Returned(invoiceDataOf(pageDimensions, page0.prediction,
                                         page0.tables))

RECURSIVE Join(_)
Join(str) == IF str = <<>> THEN "" ELSE Head(str) \o Join(Tail(str))

\* The part of an InvoiceData that the template reconciliation reads.
ForReconciliation(data) ==
    [invoiceNumber |-> data.invoiceNumber,
     shipper |-> [name |-> data.shipper.name,
                  fields |-> [name |-> data.shipper.fields.name]],
     fields |-> [invoiceNumber |-> data.fields.invoiceNumber,
                 currency |-> data.fields.currency],
     lineItems |-> [i \in DOMAIN data.lineItems |->
                      [hsCode |-> Join(data.lineItems[i].hsCode),
                       fields |-> [hsCode |-> data.lineItems[i].fields.hsCode]]],
     tables |-> data.tables]

\* _extractInvoiceData, lines 407-453, from the response on: an exception
\* of the normalizer is caught at line 449 and thrown again, and a null
\* output is turned into an exception at lines 417-419.
extractFromResponse(modelResponse, pageDimensions, templates, loaded) ==
    LET out == transformModelResponseToInvoiceData(modelResponse, pageDimensions)
    IN  IF out.status = "thrown" THEN Rejected
        ELSE extractInvoiceData(templates, loaded,
                 IF out.status = "null" THEN NullExtraction
                 ELSE Extraction(ForReconciliation(out.data)))

\* The call of line 416 followed by the rest of _extractInvoiceData.
ExtractFromResponse ==
    /\ nzOutput.status = "pending"
    /\ nzOutput' = transformModelResponseToInvoiceData(nzResponse, nzDims)
    /\ exResult' = extractFromResponse(nzResponse, nzDims, exTemplates, exLoaded)
    /\ exExtracted' =
           (LET out == transformModelResponseToInvoiceData(nzResponse, nzDims)
            IN  IF out.status = "returned"
                THEN Extraction(ForReconciliation(out.data))
                ELSE NullExtraction)
    /\ UNCHANGED <<nzResponse, nzDims, exTemplates, exLoaded>>
    /\ UNCHANGED <<gestureVars, viewVars, renderVars, appVars, docVars,
                   overlayVars, storeVars, sessionVars>>

----------------------------------------------------------------------------
(* The App: file selection, extraction and the reviewer's corrections       *)
(* (src/types.ts:133-345).                                                  *)
(*                                                                          *)
(* Of an InvoiceData the App part keeps what the reviewer corrects in the   *)
(* viewer: the boxes by path and the tables.                                *)

Data(bs, tbls) == [isNull |-> FALSE, boxes |-> bs, tables |-> tbls]
NullData == [isNull |-> TRUE, boxes |-> [p \in Paths |-> NoBox], tables |-> <<>>]

NoError == "null"
ExtractionFailed == "Extraction Failed"

\* resetState, lines 190-199.
resetState ==
    /\ extractedData' = NullData
    /\ editedData' = NullData
    /\ error' = NoError
    /\ isLoading' = FALSE

\* handleFileSelect, lines 164-188 (the vendor pre-scan only preselects a
\* template and is left out).
HandleFileSelect ==
    /\ resetState
    /\ imageFile' = TRUE
    /\ lastSettled' = "none"
    /\ UNCHANGED <<extractsPending, nExtracts, heldBefore>>
    /\ UNCHANGED <<gestureVars, viewVars, renderVars, extractVars, normVars,
                   docVars, overlayVars, storeVars, sessionVars>>

\* handleExtract up to its await, lines 201-213.  The button that calls it
\* is disabled without a file and while loading (line 392).
HandleExtract ==
    /\ imageFile /\ ~isLoading
    /\ nExtracts < MaxExtracts
    /\ isLoading' = TRUE
    /\ extractedData' = NullData
    /\ editedData' = NullData
    /\ error' = NoError
    /\ extractsPending' = extractsPending + 1
    /\ nExtracts' = nExtracts + 1
    /\ heldBefore' = editedData
    /\ lastSettled' = "none"
    /\ UNCHANGED imageFile
    /\ UNCHANGED <<gestureVars, viewVars, renderVars, extractVars, normVars,
                   docVars, overlayVars, storeVars, sessionVars>>

\* handleExtract after its await, lines 213-228: the promise resolved with
\* data, resolved without data, or was rejected.
ExtractSettles(outcome, data) ==
    /\ extractsPending > 0
    /\ extractsPending' = extractsPending - 1
    /\ IF outcome = "resolved" /\ ~data.isNull
       THEN /\ extractedData' = data
            /\ editedData' = data
            /\ lastSettled' = "succeeded"
            /\ UNCHANGED error
       ELSE /\ error' = ExtractionFailed
            /\ lastSettled' = "failed"
            /\ UNCHANGED <<extractedData, editedData>>
    /\ isLoading' = FALSE
    /\ UNCHANGED <<imageFile, nExtracts, heldBefore>>
    /\ UNCHANGED <<gestureVars, viewVars, renderVars, extractVars, normVars,
                   docVars, overlayVars, storeVars, sessionVars>>

\* handleBoxUpdate of the App, lines 264-271: lodash set on a copy.
AppBoxUpdate(path, newBox) ==
    /\ editedData' = IF editedData.isNull THEN NullData
                     ELSE [editedData EXCEPT !.boxes[path] = newBox]
    /\ UNCHANGED <<imageFile, extractedData, error, isLoading, extractsPending,
                   nExtracts, heldBefore, lastSettled>>
    /\ UNCHANGED <<gestureVars, viewVars, renderVars, extractVars, normVars,
                   docVars, overlayVars, storeVars, sessionVars>>

\* handleTableUpdate of the App, lines 273-282.
AppTableUpdate(tableIndex, newTableData) ==
    /\ ~editedData.isNull => tableIndex \in DOMAIN editedData.tables
    /\ editedData' = IF editedData.isNull THEN editedData
                     ELSE [editedData EXCEPT !.tables[tableIndex] = newTableData]
    /\ UNCHANGED <<imageFile, extractedData, error, isLoading, extractsPending,
                   nExtracts, heldBefore, lastSettled>>
    /\ UNCHANGED <<gestureVars, viewVars, renderVars, extractVars, normVars,
                   docVars, overlayVars, storeVars, sessionVars>>

----------------------------------------------------------------------------
(* The template store, src/unnamed/part_001 (templateService)               *)
(*                                                                          *)
(* The item localStorage holds under TEMPLATES_STORAGE_KEY is a record      *)
(* [kind, list]: "null" when nothing is stored, "list" when the text is     *)
(* the JSON of a template array (the only text the service writes),         *)
(* "garbled" when JSON.parse rejects the text, "value" when the text is the *)
(* JSON of something that is not an array, and "denied" when the browser    *)
(* refuses access to the storage (getItem and setItem throw).  A template's *)
(* invoiceData holds absent keys as absent already, so JSON.stringify and   *)
(* JSON.parse return it as it is.                                           *)

MaxStoreOps == 3   \* calls of the store in one behaviour

StoredItem(kind, list) == [kind |-> kind, list |-> list]
NoItem == StoredItem("null", <<>>)

VendorTemplate(id, vendorName, data) ==
    [id |-> id, vendorName |-> vendorName, invoiceData |-> data]

\* getTemplates without its catch: nothing usable comes back unless the
\* item is readable.
getTemplatesUncaught(item) ==
    CASE item.kind = "list" -> [isArray |-> TRUE, list |-> item.list]
      [] item.kind = "null" -> [isArray |-> TRUE, list |-> <<>>]
      [] OTHER              -> [isArray |-> FALSE, list |-> <<>>]

\* getTemplates, lines 14-22: isArray tells whether the value returned is
\* an array; the catch returns [].
getTemplates(item) ==
    CASE item.kind = "list"  -> [isArray |-> TRUE, list |-> item.list]
      [] item.kind = "value" -> [isArray |-> FALSE, list |-> <<>>]
      [] OTHER               -> [isArray |-> TRUE, list |-> <<>>]

\* saveTemplate's array if it pushed the new template whatever is stored.
savedListAppend(templates, vendorName, data, newId) ==
    Append(templates, VendorTemplate(newId, vendorName, data))

\* The array saveTemplate writes, lines 31-46, with newId = generateId().
savedList(templates, vendorName, data, newId) ==
    LET existingTemplateIndex == findMatch(templates, vendorName)
    IN  IF existingTemplateIndex # 0
        THEN [templates EXCEPT ![existingTemplateIndex] =
                 VendorTemplate(templates[existingTemplateIndex].id,
                                vendorName, data)]
        ELSE Append(templates, VendorTemplate(newId, vendorName, data))

\* templates.findIndex(t => t.id === templateId), 0 for -1.
findIndexById(templates, templateId) ==
    LET hits == {i \in DOMAIN templates : templates[i].id = templateId}
    IN  IF hits = {} THEN 0 ELSE CHOOSE i \in hits : \A j \in hits : i <= j

\* templates.filter(t => t.id !== templateId), line 83.
RECURSIVE filterOutId(_, _)
filterOutId(templates, templateId) ==
    IF templates = <<>> THEN <<>>
    ELSE IF Head(templates).id = templateId
         THEN filterOutId(Tail(templates), templateId)
         ELSE <<Head(templates)>> \o filterOutId(Tail(templates), templateId)

\* localStorage.setItem(key, JSON.stringify(templates)) inside try/catch:
\* the item afterwards.  The call throws when access is denied, and may
\* throw when the quota is exceeded (accepted = FALSE); the catch logs.
setItem(item, templates, accepted) ==
    IF item.kind # "denied" /\ accepted THEN StoredItem("list", templates) ELSE item

Wrote(item, accepted) ==
    IF item.kind # "denied" /\ accepted THEN "stored" ELSE "failed"

StoreOp(op, vendorName, id, data, outcome) ==
    [op |-> op, vendorName |-> vendorName, id |-> id, data |-> data,
     outcome |-> outcome]

\* saveTemplate, lines 29-53.  On a value that is not an array
\* templates.findIndex throws a TypeError at line 31.
saveTemplate(vendorName, data, accepted) ==
    LET got == getTemplates(stItem)
    IN  /\ nStoreOps < MaxStoreOps
        /\ UNCHANGED <<gestureVars, viewVars, renderVars, extractVars, normVars,
                       appVars, docVars, overlayVars, sessionVars>>
        /\ nStoreOps' = nStoreOps + 1
        /\ IF got.isArray
           THEN /\ stItem' = setItem(stItem,
                                savedList(got.list, vendorName, data, nIds + 1),
                                accepted)
                /\ nIds' = nIds + 1
                /\ lastOp' = StoreOp("save", vendorName, 0, data,
                                     Wrote(stItem, accepted))
           ELSE /\ lastOp' = StoreOp("save", vendorName, 0, data, "threw")
                /\ UNCHANGED <<stItem, nIds>>

\* updateTemplate, lines 60-74.
updateTemplate(templateId, data, accepted) ==
    LET got == getTemplates(stItem)
        templateIndex == findIndexById(got.list, templateId)
    IN  /\ nStoreOps < MaxStoreOps
        /\ UNCHANGED <<gestureVars, viewVars, renderVars, extractVars, normVars,
                       appVars, docVars, overlayVars, sessionVars>>
        /\ nStoreOps' = nStoreOps + 1
        /\ UNCHANGED nIds
        /\ IF ~got.isArray
           THEN /\ lastOp' = StoreOp("update", <<>>, templateId, data, "threw")
                /\ UNCHANGED stItem
           ELSE IF templateIndex # 0
           THEN /\ stItem' = setItem(stItem,
                                [got.list EXCEPT ![templateIndex].invoiceData = data],
                                accepted)
                /\ lastOp' = StoreOp("update", <<>>, templateId, data,
                                     Wrote(stItem, accepted))
           ELSE /\ lastOp' = StoreOp("update", <<>>, templateId, data, "unknown id")
                /\ UNCHANGED stItem

\* deleteTemplate, lines 81-89.
deleteTemplate(templateId, accepted) ==
    LET got == getTemplates(stItem)
    IN  /\ nStoreOps < MaxStoreOps
        /\ UNCHANGED <<gestureVars, viewVars, renderVars, extractVars, normVars,
                       appVars, docVars, overlayVars, sessionVars>>
        /\ nStoreOps' = nStoreOps + 1
        /\ UNCHANGED nIds
        /\ IF got.isArray
           THEN /\ stItem' = setItem(stItem, filterOutId(got.list, templateId),
                                     accepted)
                /\ lastOp' = StoreOp("delete", <<>>, templateId, EmptyInvoice,
                                     Wrote(stItem, accepted))
           ELSE /\ lastOp' = StoreOp("delete", <<>>, templateId, EmptyInvoice,
                                     "threw")
                /\ UNCHANGED stItem

\* handleFileSelect's vendor matching, src/types.ts:170-182: getTemplates(),
\* then currentTemplates.find by lower-cased name; the try around it
\* catches the TypeError of a value that is not an array.  The id of the
\* matched template, 0 for none, is what setLoadedTemplateId receives.
matchOnSelect(detectedVendor) ==
    LET got == getTemplates(stItem)
        m   == findMatch(got.list, detectedVendor)
    IN  /\ nStoreOps < MaxStoreOps
        /\ UNCHANGED <<gestureVars, viewVars, renderVars, extractVars, normVars,
                       appVars, docVars, overlayVars, sessionVars>>
        /\ nStoreOps' = nStoreOps + 1
        /\ lastOp' = StoreOp("select", detectedVendor,
                             IF m = 0 THEN 0 ELSE got.list[m].id,
                             EmptyInvoice, "completed")
        /\ UNCHANGED <<stItem, nIds>>

\* handleExtract with vendorTemplates as getTemplates() returned it
\* (src/types.ts:153, 201-229) and no template preselected: a value that is
\* not an array makes templates.find throw inside _extractInvoiceData, and
\* the call rejects.
extractWithStore(extracted) ==
    LET got == getTemplates(stItem)
    IN  /\ nStoreOps < MaxStoreOps
        /\ UNCHANGED <<gestureVars, viewVars, renderVars, normVars, appVars,
                       docVars, overlayVars, sessionVars>>
        /\ nStoreOps' = nStoreOps + 1
        /\ exTemplates' = got.list
        /\ exLoaded' = 0
        /\ exExtracted' = extracted
        /\ exResult' = IF got.isArray
                       THEN extractInvoiceData(got.list, 0, extracted)
                       ELSE Rejected
        /\ lastOp' = StoreOp("extract", <<>>, 0, EmptyInvoice, "completed")
        /\ UNCHANGED <<stItem, nIds>>

----------------------------------------------------------------------------
(* Loading a document: the file effect of the viewer                        *)
(* (src/components/PdfViewer.tsx:98-122) and the render effect that         *)
(* follows a change of pdfDoc (lines 172-196).                              *)

\* The file prop changes to another file: the effect hands it to a
\* FileReader (lines 105-121) and changes no state.
FileChosen ==
    /\ nLoads < MaxLoads
    /\ loadsPending' = loadsPending + 1
    /\ nLoads' = nLoads + 1
    /\ lastLoad' = "pending"
    /\ UNCHANGED <<pdfDoc, numPages>>
    /\ UNCHANGED <<gestureVars, viewVars, renderVars, extractVars, normVars,
                   appVars, overlayVars, storeVars, sessionVars>>

\* loadingTask.promise resolves (lines 110-113): the document, its page
\* count and page 1 are set, and the render effect runs for the new
\* document: cleanup of the old effect, then doRender().
LoadSucceeds ==
    /\ loadsPending > 0
    /\ loadsPending' = loadsPending - 1
    /\ pdfDoc' = nLoads
    /\ numPages' = NumPages
    /\ PageChangeEffect(1)
    /\ lastLoad' = "succeeded"
    /\ UNCHANGED <<scale, transform, pendingZoomRef, canvasPage, zoomReq, nLoads>>
    /\ UNCHANGED <<gestureVars, extractVars, normVars, appVars, overlayVars,
                   storeVars, sessionVars>>

\* loadingTask.promise rejects (lines 114-118): console.error, no document,
\* page count 0.  If a document was shown its render effect is cleaned up
\* (the ref's task is cancelled, an armed timeout stays armed) and no new
\* effect body runs, pdfDoc being null (line 173).
LoadFails ==
    /\ loadsPending > 0
    /\ loadsPending' = loadsPending - 1
    /\ pdfDoc' = 0
    /\ numPages' = 0
    /\ IF pdfDoc # 0
       THEN /\ calls' = AfterCancel(calls, renderTask).calls
            /\ renderTask' = AfterCancel(calls, renderTask).ref
            /\ staleTimers' = IF curTimer THEN staleTimers \cup {currentPage}
                              ELSE staleTimers
            /\ curTimer' = FALSE
       ELSE UNCHANGED <<calls, renderTask, staleTimers, curTimer>>
    /\ lastLoad' = "failed"
    /\ UNCHANGED <<currentPage, scale, transform, pendingZoomRef, canvasPage,
                   nCalls, zoomReq, nLoads>>
    /\ UNCHANGED <<gestureVars, extractVars, normVars, appVars, overlayVars,
                   storeVars, sessionVars>>

----------------------------------------------------------------------------
(* The overlay boxes: getAllBoxes (src/components/PdfViewer.tsx:346-378),   *)
(* the path lookup (lodash get) and the active box.                         *)
(*                                                                          *)
(* The data is a tree of objects, arrays and scalars.  A path string is     *)
(* the sequence of its lexical tokens: property names, ".", "[", an index   *)
(* and "]"; two path strings are equal exactly when their token sequences   *)
(* are.                                                                     *)

Node(kind, keys, vals, box) ==
    [kind |-> kind, keys |-> keys, vals |-> vals, box |-> box]

Scalar        == Node("scalar", <<>>, <<>>, NoBox)
UndefinedNode == Node("undefined", <<>>, <<>>, NoBox)
BoxObj(b)     == Node("box", <<>>, <<>>, b)       \* an object with a page key
Obj(keys, vals) == Node("object", keys, vals, NoBox)
Arr(items)    == Node("array", <<>>, items, NoBox)

\* current[key]
Prop(current, key) ==
    IF current.kind = "object" /\ \E i \in DOMAIN current.keys : current.keys[i] = key
    THEN current.vals[CHOOSE i \in DOMAIN current.keys : current.keys[i] = key]
    ELSE UndefinedNode

IndexToken(i) == CASE i = 0 -> "0" [] i = 1 -> "1" [] i = 2 -> "2" [] OTHER -> "3"
TokenIndex(t) == CASE t = "0" -> 0 [] t = "1" -> 1 [] t = "2" -> 2
                   [] t = "3" -> 3 [] OTHER -> -1

RECURSIVE Flatten(_)
Flatten(ss) == IF ss = <<>> THEN <<>> ELSE Head(ss) \o Flatten(Tail(ss))

\* path.endsWith('.fields') ? path.replace(/\.fields$/, '.boundingBox')
\*                          : `${path}.boundingBox`           (line 352)
fullPathOf(path) ==
    IF Len(path) >= 2 /\ path[Len(path) - 1] = "." /\ path[Len(path)] = "fields"
    THEN SubSeq(path, 1, Len(path) - 2) \o <<".", "boundingBox">>
    ELSE path \o <<".", "boundingBox">>

\* recurse, lines 348-375: the pairs pushed while current is visited, in
\* the order of the pushes.
RECURSIVE recurse(_, _)
recurse(current, path) ==
    IF current.kind \notin {"object", "array", "box"} THEN <<>>
    ELSE
    LET bb  == Prop(current, "boundingBox")
        own == IF bb.kind = "box"
               THEN <<[path |-> fullPathOf(path), box |-> bb.box]>>
               ELSE <<>>
        fs  == Prop(current, "fields")
        ofFields ==
            IF fs.kind # "object" THEN <<>>
            ELSE Flatten([i \in DOMAIN fs.keys |->
                    IF Prop(fs.vals[i], "boundingBox").kind = "box"
                    THEN <<[path |-> path \o <<".", "fields", ".", fs.keys[i],
                                                ".", "boundingBox">>,
                            box |-> Prop(fs.vals[i], "boundingBox").box]>>
                    ELSE <<>>])
        below ==
            IF current.kind = "array"
            THEN Flatten([i \in DOMAIN current.vals |->
                    recurse(current.vals[i],
                            path \o <<"[", IndexToken(i - 1), "]">>)])
            ELSE Flatten([i \in DOMAIN current.keys |->
                    IF current.keys[i] \in {"boundingBox", "fields", "tables"}
                    THEN <<>>
                    ELSE recurse(current.vals[i],
                                 IF path = <<>> THEN <<current.keys[i]>>
                                 ELSE path \o <<".", current.keys[i]>>)])
    IN  own \o ofFields \o below

getAllBoxes(invData) == recurse(invData, <<>>)

\* lodash stringToPath: a leading dot gives an empty first key, then every
\* property name and index is a key.
stringToPath(path) ==
    (IF path # <<>> /\ Head(path) = "." THEN <<"">> ELSE <<>>)
        \o SelectSeq(path, LAMBDA t : t \notin {".", "[", "]"})

\* lodash baseGet: follow the keys, undefined as soon as one is missing.
RECURSIVE baseGet(_, _)
baseGet(object, keys) ==
    IF keys = <<>> THEN object
    ELSE LET k == Head(keys)
             next ==
                 IF object.kind = "object" THEN Prop(object, k)
                 ELSE IF object.kind = "array"
                         /\ TokenIndex(k) + 1 \in DOMAIN object.vals
                      THEN object.vals[TokenIndex(k) + 1]
                      ELSE UndefinedNode
         IN  IF next.kind = "undefined" THEN UndefinedNode
             ELSE baseGet(next, Tail(keys))

\* get(data, path)
get(object, path) ==
    IF stringToPath(path) = <<>> THEN UndefinedNode
    ELSE baseGet(object, stringToPath(path))

\* Lines 403-406: the boxes drawn on the current page, and those of them
\* drawn active (isActive).
Drawn == SelectSeq(allBoxes, LAMBDA pb : pb.box.page = currentPage)
DrawnActive == SelectSeq(Drawn, LAMBDA pb : pb.path = activeFieldPath)

\* activeFieldPath null.
NullPath == <<"null">>

\* The data prop changes from null to the extracted data (editedData of
\* the App) and the viewer renders: line 380.
DataArrives(invData) ==
    /\ invoiceData.kind = "undefined"
    /\ invoiceData' = invData
    /\ allBoxes' = getAllBoxes(invData)
    /\ UNCHANGED gestureVars
    /\ UNCHANGED <<viewVars, renderVars, extractVars, normVars, appVars, docVars,
                   storeVars, sessionVars>>

\* handleFieldFocus of the App (src/types.ts:249-262), called by onFocus
\* of a form field with its path and by onBlur with null, followed by the
\* render of the viewer.
HandleFieldFocus(path) ==
    /\ invoiceData.kind # "undefined"
    /\ activeFieldPath' = path
    /\ LET found == get(invoiceData, path)
       IN  IF path # NullPath /\ found.kind = "box"
           THEN zoomToBoxOfHandle(found.box)
           ELSE UNCHANGED <<viewVars, renderVars>>
    /\ allBoxes' = getAllBoxes(invoiceData)
    /\ UNCHANGED <<boxes, tables, bboxInteraction, gridInteraction, nEvents, lastEvent,
                   invoiceData>>
    /\ UNCHANGED <<extractVars, normVars, appVars, docVars, storeVars,
                   sessionVars>>

\* handleBboxMouseDown on the body of a drawn box (lines 218-234, called
\* from line 420): onBoxClick sets the active path (handleBoxClick,
\* src/types.ts:245-247) and the drag starts if the lookup finds the box.
OverlayMouseDown(i) ==
    /\ i \in DOMAIN Drawn
    /\ activeFieldPath' = Drawn[i].path
    /\ LET found == get(invoiceData, Drawn[i].path)
       IN  IF found.kind = "box"
           THEN bboxInteraction' = [mode |-> "drag", path |-> Join(Drawn[i].path),
                                    startX |-> 0, startY |-> 0,
                                    startBox |-> found.box]
           ELSE UNCHANGED bboxInteraction
    /\ allBoxes' = getAllBoxes(invoiceData)
    /\ UNCHANGED <<boxes, tables, gridInteraction, nEvents, lastEvent, invoiceData>>
    /\ UNCHANGED <<viewVars, renderVars, extractVars, normVars, appVars, docVars,
                   storeVars, sessionVars>>

\* handleMouseUp (lines 288-300) with no gridline gesture.
OverlayMouseUp ==
    /\ bboxInteraction.mode # "idle"
    /\ bboxInteraction' = IdleBbox
    /\ allBoxes' = getAllBoxes(invoiceData)
    /\ UNCHANGED <<boxes, tables, gridInteraction, nEvents, lastEvent, activeFieldPath,
                   invoiceData>>
    /\ UNCHANGED <<viewVars, renderVars, extractVars, normVars, appVars, docVars,
                   storeVars, sessionVars>>

----------------------------------------------------------------------------
(* Initial states *)


\* The viewer right after construction and the first document load:
\* page 1, scale 1, pan {0, 0}, no gesture, no render requested yet.
ViewerRest ==
    /\ calls = {} /\ renderTask = 0 /\ pendingZoomRef = NoBox
    /\ canvasPage = 0 /\ curTimer = FALSE /\ staleTimers = {}
    /\ nCalls = 0 /\ zoomReq = NoZoomReq

ExtractRest ==
    /\ exTemplates = <<>> /\ exLoaded = 0
    /\ exExtracted = NullExtraction /\ exResult = NoResult

NormRest == nzResponse = <<>> /\ nzDims = <<>> /\ nzOutput = NoOutput

\* The App after construction: nothing selected, nothing extracted.
AppRest ==
    /\ imageFile = FALSE /\ extractedData = NullData /\ editedData = NullData
    /\ error = NoError /\ isLoading = FALSE
    /\ extractsPending = 0 /\ nExtracts = 0
    /\ heldBefore = NullData /\ lastSettled = "none"

\* The viewer before any file was chosen, and with its first document
\* loaded.
DocEmpty ==
    /\ pdfDoc = 0 /\ numPages = 0 /\ loadsPending = 0 /\ nLoads = 0
    /\ lastLoad = "none"
DocLoaded ==
    /\ pdfDoc = 1 /\ numPages = NumPages /\ loadsPending = 0 /\ nLoads = 1
    /\ lastLoad = "succeeded"

\* The data prop is null (no tree is kept where the data is held as boxes
\* and tables).
OverlayRest == invoiceData = UndefinedNode /\ allBoxes = <<>>

\* Nothing stored, no call of the store yet.
StoreRest ==
    /\ stItem = NoItem /\ nIds = 0 /\ nStoreOps = 0
    /\ lastOp = StoreOp("none", <<>>, 0, EmptyInvoice, "none")

\* The state hooks of the App, src/types.ts:133-147.  A file is the number
\* of the selection that brought it, extracted data and an error message
\* are the number of the file whose extraction produced them, and 0 is null.
MountedApp(templates) ==
    [imageFile |-> 0, extractedData |-> 0, editedData |-> 0, error |-> 0,
     isLoading |-> FALSE, isPreScanning |-> FALSE, loadedTemplateId |-> 0,
     vendorTemplates |-> templates]

\* No call awaited: extracts counts the extractInvoiceData calls in flight
\* for each file, scans holds the files whose pre-scan is in flight.
NoCalls == [extracts |-> [f \in 1..MaxSelections |-> 0], scans |-> {}]

NoPass == [loadedTemplateId |-> 0, loadedTemplate |-> 0]
NoAppHist == [nSelections |-> 0, nExtracts |-> 0, passed |-> NoPass]

\* The App mounted over an empty store, nothing selected, nothing awaited.
SessionRest ==
    /\ appState = MountedApp(<<>>) /\ inFlight = NoCalls /\ appHist = NoAppHist

OtherRest ==
    NormRest /\ AppRest /\ DocLoaded /\ OverlayRest /\ StoreRest /\ SessionRest

\* The data prop of the viewer.  It is the output of the extraction service
\* or a stored template, neither of which the viewer validates: a box may
\* arrive with x1 > x2.  Gridline arrays arrive sorted.
FirstPath  == "shipper.fields.name.boundingBox"
SecondPath == "lineItems[0].boundingBox"

BoxesWith(b) == [p \in Paths |-> IF p = FirstPath THEN Box(1, 0, 0, 1, 1) ELSE b]

FirstTable     == Table(Box(1, 0, 0, Grid, 1), <<0, 1>>, <<1>>)
SecondTable(p) == Table(Box(p, 0, 2, Grid, Grid), <<2>>, <<>>)

\* The documents reviewed: the boxes, the tables and the page shown.
Scenarios ==
    { [boxes |-> BoxesWith(Box(1, 1, 1, 2, 2)), tables |-> <<FirstTable>>,
       page |-> 1],
      [boxes |-> BoxesWith(Box(1, 2, 1, 1, 2)), tables |-> <<FirstTable>>,
       page |-> 1],
      [boxes |-> BoxesWith(Box(1, 1, 1, 2, 2)),
       tables |-> <<FirstTable, SecondTable(1)>>, page |-> 1],
      [boxes |-> BoxesWith(Box(2, 1, 1, 2, 2)),
       tables |-> <<FirstTable, SecondTable(2)>>, page |-> 1],
      [boxes |-> BoxesWith(Box(2, 1, 1, 2, 2)),
       tables |-> <<FirstTable, SecondTable(2)>>, page |-> 2] }

\* The gesture handlers with the page, the zoom and the pan held fixed at
\* values the viewer can show: a page of the document, the initial scale
\* or the zoom-out floor, no pan.
InitGesture ==
    /\ \E sc \in Scenarios :
          /\ boxes = sc.boxes
          /\ tables = sc.tables
          /\ currentPage = sc.page
    /\ bboxInteraction = IdleBbox
    /\ gridInteraction = IdleGrid
    /\ activeFieldPath \in {None, FirstPath}
    /\ nEvents = 0
    /\ lastEvent = NoEvent
    /\ scale \in {MinScale, ScaleOne}
    /\ transform = [x |-> 0, y |-> 0]
    /\ ViewerRest
    /\ ExtractRest
    /\ OtherRest

BboxMouseDown ==
    \E path \in Paths, mode \in BboxModes, p \in PtrPoints :
        handleBboxMouseDown(path, mode, p[1], p[2])

GridMouseDown ==
    \E mode \in {"drag-row", "drag-col"}, i \in 1..2, l \in 1..MaxLines,
       p \in PtrPoints :
        handleGridMouseDown(mode, i, l, p[1], p[2])

MouseMove == \E p \in PtrPoints : handleMouseMove(p[1], p[2])

MouseUp == handleMouseUp

DoubleClick ==
    \E p \in PtrPoints, altKey \in BOOLEAN :
        handleDoubleClick(p[1], p[2], altKey)

DeleteLine ==
    \E i \in 1..2, type \in {"row", "col"}, l \in 1..MaxLines :
        handleDeleteLine(i, type, l)

NextGesture ==
    \/ BboxMouseDown
    \/ GridMouseDown
    \/ MouseMove
    \/ MouseUp
    \/ DoubleClick
    \/ DeleteLine

SpecGesture == InitGesture /\ [][NextGesture]_vars

\* The gestures with pointer-moves that also go to the lower edge of the page
\* and below it.
LowerPoints == {<<2, Grid>>, <<2, Grid + 1>>}

MoveLower == \E p \in LowerPoints : handleMouseMove(p[1], p[2])

NextDrag ==
    \/ BboxMouseDown
    \/ GridMouseDown
    \/ MouseMove
    \/ MoveLower
    \/ MouseUp

SpecDrag == InitGesture /\ [][NextDrag]_vars

----------------------------------------------------------------------------
(* Claims about the gesture machines *)

Ordered(b) == b.x1 <= b.x2 /\ b.y1 <= b.y2

\* C1: in every reachable state at most one gesture is active: the box
\* machine and the gridline machine are never both different from 'idle'.
C1_OneGestureActive ==
    ~(bboxInteraction.mode # "idle" /\ gridInteraction.mode # "idle")

\* C5: whenever a box gesture ends (pointer-up while the box machine is not
\* idle), the box then stored at the gesture's path has x1 <= x2 and
\* y1 <= y2, whatever it was at pointer-down and however many moves came.
C5_OrderedAfterRelease ==
    [][ (bboxInteraction.mode # "idle" /\ bboxInteraction'.mode = "idle")
          => Ordered(boxes'[bboxInteraction.path]) ]_vars

\* C6: starting from sorted tables, in every state in which no gridline
\* gesture is in progress the rows and the columns of every table are
\* non-decreasing.
C6_SortedWhenNoGridGesture ==
    gridInteraction.mode = "idle" =>
        \A i \in 1..Len(tables) :
            IsSorted(tables[i].rows) /\ IsSorted(tables[i].columns)

----------------------------------------------------------------------------
(* The viewer's rendering: a document of NumPages pages has loaded and the *)
(* render effect has run once, so renderPage(1) awaits its page.           *)

\* The boxes zoomToBox is called with: a field on the first page and two
\* fields of different size on the second.
ZoomBoxes == {Box(1, 0, 0, 1, 1), Box(2, 0, 0, 1, 1), Box(2, 1, 1, 2, 3)}

InitRender ==
    /\ currentPage = 1
    /\ scale = ScaleOne
    /\ transform = NoPan
    /\ calls = {[id |-> 1, page |-> 1, pc |-> "getPage"]}
    /\ renderTask = 0
    /\ pendingZoomRef = NoBox
    /\ canvasPage = 0
    /\ curTimer = FALSE
    /\ staleTimers = {}
    /\ nCalls = 1
    /\ zoomReq = NoZoomReq
    /\ boxes = BoxesWith(Box(1, 1, 1, 2, 2))
    /\ tables = <<FirstTable>>
    /\ bboxInteraction = IdleBbox
    /\ gridInteraction = IdleGrid
    /\ activeFieldPath = None
    /\ nEvents = 0
    /\ lastEvent = NoEvent
    /\ ExtractRest
    /\ OtherRest

ZoomToBox == \E box \in ZoomBoxes : zoomToBox(box)

SetCurrentPage == \E d \in {-1, 1} : setCurrentPage(currentPage + d)

GetPageResolves == \E c \in calls : getPageResolves(c)

RenderCompletes == \E c \in calls : renderCompletes(c)

RenderFails == \E c \in calls : renderFails(c)

HandleResize == handleResize

TimeoutFires ==
    \E live \in BOOLEAN, page \in 1..NumPages : timeoutFires(live, page)

NextRender ==
    \/ ZoomToBox
    \/ SetCurrentPage
    \/ GetPageResolves
    \/ RenderCompletes
    \/ RenderFails
    \/ HandleResize
    \/ TimeoutFires

SpecRender == InitRender /\ [][NextRender]_vars

----------------------------------------------------------------------------
(* Template reconciliation: one call of extractInvoiceData on every        *)
(* combination of saved templates, preselected template and normalizer     *)
(* output drawn from the sets below.                                       *)

Item(hs, m) == [hsCode |-> hs, fields |-> [hsCode |-> m]]

VendorNames == {<<"A", "b">>, <<"a", "B">>, <<"c">>, <<"B">>}

\* Shapes of InvoiceData: a complete one with two line items, one whose
\* invoice number holds 001 twice and has low confidence, one with the
\* invoice number absent and a row without hs_code cell, one with
\* confidences of 0.
Shapes(shipperName) ==
    { Invoice(<<"N", "0", "0", "1">>, Meta(99, Box(1, 2, 0, 3, 1)), shipperName,
              <<Item("8471.30.00", Meta(94, Box(1, 2, 1, 3, 2))),
                Item("8471.60.20", Meta(93, Box(1, 2, 2, 3, 3)))>>,
              <<FirstTable>>),
      Invoice(<<"0", "0", "1", "0", "0", "1">>, Meta(50, Box(1, 2, 0, 3, 1)),
              shipperName, <<>>, <<>>),
      Invoice(<<>>, Meta(Undefined, NoBox), shipperName,
              <<Item("", NoMeta)>>, <<>>),
      Invoice(<<"N", "1">>, Meta(0, Box(1, 2, 0, 3, 1)), shipperName,
              <<Item("8471.30.00", Meta(0, Box(1, 2, 1, 3, 2)))>>,
              <<FirstTable>>) }

\* Normalizer outputs: the shipper name may be absent.
Extractions ==
    {NullExtraction}
        \cup {Extraction(d) : d \in UNION {Shapes(n) : n \in VendorNames \cup {<<>>}}}

TemplateData == Shapes(<<"c">>)

\* The lists templateService keeps: vendor names differ ignoring case
\* (saveTemplate, src/unnamed/part_001:29-53).
TemplateLists ==
    UNION { { [i \in 1..n |-> [id |-> i, vendorName |-> ns[i],
                               invoiceData |-> ds[i]]] :
                ns \in {f \in [1..n -> VendorNames] :
                          \A i, j \in 1..n :
                              i # j => toLowerCase(f[i]) # toLowerCase(f[j])},
                ds \in [1..n -> TemplateData] }
            : n \in 0..MaxTemplates }

InitExtract ==
    /\ exTemplates \in TemplateLists
    /\ exLoaded \in 0..Len(exTemplates)
    /\ exExtracted \in Extractions
    /\ exResult = NoResult
    /\ boxes = BoxesWith(Box(1, 1, 1, 2, 2))
    /\ tables = <<FirstTable>>
    /\ bboxInteraction = IdleBbox
    /\ gridInteraction = IdleGrid
    /\ activeFieldPath = None
    /\ nEvents = 0
    /\ lastEvent = NoEvent
    /\ currentPage = 1 /\ scale = ScaleOne /\ transform = NoPan
    /\ ViewerRest
    /\ OtherRest

NextExtract == ExtractInvoiceData

SpecExtract == InitExtract /\ [][NextExtract]_vars

(* The normalizer and the call around it: a response of up to MaxRespPages *)
(* page entries, the dimensions of all, some or none of its pages, and a    *)
(* saved list of at most one template, preselected or not.                  *)

\* Pixel dimensions of the k-th page; the pages differ in size.
PageDim(k) == [width |-> 2 * k * Grid, height |-> 4 * k * Grid]

\* The texts of the k-th page entry differ from those of the others.
PageTag(k) == IF k = 1 THEN "1" ELSE "2"

TableGrid(k) == GridPred(k - 1, 0, 0, 2 * k * Grid, 4 * k * Grid,
                         <<4 * k, 8 * k>>, <<2 * k>>)

\* Every named field, a grid, and two rows with description, quantity and
\* hs_code.
FullPage(k) ==
    PageEntry(TRUE,
        <<Pred("invoice_id", <<"N", "0", "0", PageTag(k)>>, 99, 4, 0, 6, 4),
          Pred("invoice_date", <<"d", PageTag(k)>>, 98, 0, 0, 2, 4),
          Pred("total_amount", <<"1", "2", PageTag(k)>>, 97, 0, 4, 2, 8),
          Pred("currency", <<"U", PageTag(k)>>, 96, 2, 4, 4, 8),
          Pred("shipper_name", <<"a", "B">>, 95, 0, 8, 2, 12),
          Pred("shipper_address", <<"s", PageTag(k)>>, 94, 2, 8, 4, 12),
          Pred("consignee_name", <<"C">>, 93, 4, 8, 6, 12),
          Pred("consignee_address", <<"t", PageTag(k)>>, 92, 4, 4, 6, 8),
          TableGrid(k)>>,
        TRUE,
        <<RespTable("line_items",
            <<Cell(0, "description", <<"x", PageTag(k)>>, 91, 0, 4, 2, 8),
              Cell(0, "quantity", <<"1", ",", "2">>, 90, 2, 4, 4, 8),
              Cell(0, "hs_code", <<"8", "4", PageTag(k)>>, 89, 4, 4, 6, 8),
              Cell(1, "description", <<"y", PageTag(k)>>, 88, 0, 8, 2, 12),
              Cell(1, "quantity", <<"3">>, 87, 2, 8, 4, 12),
              Cell(1, "hs_code", <<"8", "5", PageTag(k)>>, 86, 4, 8, 6, 12)>>)>>)

\* Only shipper name and currency, no grid, and one row without hs_code.
PartialPage(k) ==
    PageEntry(TRUE,
        <<Pred("shipper_name", <<"c">>, 95, 0, 8, 2, 12),
          Pred("currency", <<"E", PageTag(k)>>, 96, 2, 4, 4, 8)>>,
        TRUE,
        <<RespTable("line_items",
            <<Cell(0, "description", <<"z", PageTag(k)>>, 91, 0, 4, 2, 8),
              Cell(0, "unit_price", <<"7">>, 90, 2, 4, 4, 8)>>)>>)

\* The labels PartialPage lacks, a grid, and one complete row.
LaterPage(k) ==
    PageEntry(TRUE,
        <<Pred("invoice_id", <<"0", "0", "1", PageTag(k)>>, 50, 4, 0, 6, 4),
          Pred("invoice_date", <<"e", PageTag(k)>>, 98, 0, 0, 2, 4),
          Pred("total_amount", <<"4", PageTag(k)>>, 97, 0, 4, 2, 8),
          TableGrid(k)>>,
        TRUE,
        <<RespTable("line_items",
            <<Cell(0, "hs_code", <<"8", "6", PageTag(k)>>, 89, 4, 4, 6, 8)>>)>>)

\* Entries with a list missing, and an entry with both lists empty.
NoPredictionPage == PageEntry(FALSE, <<>>, TRUE, <<>>)
NoTablesPage(k) ==
    PageEntry(TRUE, <<Pred("invoice_id", <<"N", PageTag(k)>>, 99, 4, 0, 6, 4)>>,
              FALSE, <<>>)
BarePage == PageEntry(TRUE, <<>>, TRUE, <<>>)

PageShapes(k) == {FullPage(k), PartialPage(k), LaterPage(k),
                  NoPredictionPage, NoTablesPage(k), BarePage}

Responses ==
    UNION { {r \in [1..n -> UNION {PageShapes(k) : k \in 1..n}] :
                \A k \in 1..n : r[k] \in PageShapes(k)}
            : n \in 0..MaxRespPages }

\* The dimensions of the first m pages are known.
DimLists(n) == {[k \in 1..m |-> PageDim(k)] : m \in 0..n}

NormTemplateLists == {tl \in TemplateLists : Len(tl) <= 1}

InitNormalize ==
    /\ nzResponse \in Responses
    /\ nzDims \in DimLists(Len(nzResponse))
    /\ nzOutput = NoOutput
    /\ exTemplates \in NormTemplateLists
    /\ exLoaded \in 0..Len(exTemplates)
    /\ exExtracted = NullExtraction
    /\ exResult = NoResult
    /\ boxes = BoxesWith(Box(1, 1, 1, 2, 2))
    /\ tables = <<FirstTable>>
    /\ bboxInteraction = IdleBbox
    /\ gridInteraction = IdleGrid
    /\ activeFieldPath = None
    /\ nEvents = 0
    /\ lastEvent = NoEvent
    /\ currentPage = 1 /\ scale = ScaleOne /\ transform = NoPan
    /\ ViewerRest
    /\ AppRest
    /\ DocLoaded
    /\ OverlayRest
    /\ StoreRest /\ SessionRest

NextNormalize == ExtractFromResponse

SpecNormalize == InitNormalize /\ [][NextNormalize]_vars

(* The App: no file selected yet.  The service answers with one of the     *)
(* data below, with no data, or fails; the reviewer moves boxes and         *)
(* gridlines of the data shown.                                             *)

ServiceData == {Data(BoxesWith(Box(1, 1, 1, 2, 2)), <<FirstTable>>),
                Data(BoxesWith(Box(2, 0, 0, 1, 1)), <<>>)}

ReviewerBoxes == {Box(1, 0, 0, 1, 1), Box(1, 1, 1, 2, 2)}

InitApp ==
    /\ AppRest
    /\ boxes = BoxesWith(Box(1, 1, 1, 2, 2))
    /\ tables = <<FirstTable>>
    /\ bboxInteraction = IdleBbox
    /\ gridInteraction = IdleGrid
    /\ activeFieldPath = None
    /\ nEvents = 0
    /\ lastEvent = NoEvent
    /\ currentPage = 1 /\ scale = ScaleOne /\ transform = NoPan
    /\ ViewerRest
    /\ ExtractRest
    /\ NormRest
    /\ DocEmpty
    /\ OverlayRest
    /\ StoreRest /\ SessionRest

NextApp ==
    \/ HandleFileSelect
    \/ HandleExtract
    \/ \E data \in ServiceData : ExtractSettles("resolved", data)
    \/ ExtractSettles("resolved", NullData)
    \/ ExtractSettles("rejected", NullData)
    \/ \E path \in Paths, newBox \in ReviewerBoxes : AppBoxUpdate(path, newBox)
    \/ \E newTableData \in {FirstTable, SecondTable(1)} :
           AppTableUpdate(1, newTableData)

SpecApp == InitApp /\ [][NextApp]_vars

(* Loading documents: the viewer as constructed, no file chosen.  While a  *)
(* document is shown the reviewer changes page and zooms to boxes; renders *)
(* in flight run on whatever happens to the document.                      *)

InitLoad ==
    /\ DocEmpty
    /\ currentPage = 1 /\ scale = ScaleOne /\ transform = NoPan
    /\ ViewerRest
    /\ boxes = BoxesWith(Box(1, 1, 1, 2, 2))
    /\ tables = <<FirstTable>>
    /\ bboxInteraction = IdleBbox
    /\ gridInteraction = IdleGrid
    /\ activeFieldPath = None
    /\ nEvents = 0
    /\ lastEvent = NoEvent
    /\ ExtractRest
    /\ NormRest
    /\ AppRest
    /\ OverlayRest
    /\ StoreRest /\ SessionRest

NextLoad ==
    \/ FileChosen
    \/ LoadSucceeds
    \/ LoadFails
    \/ (pdfDoc # 0 /\ ZoomToBox)
    \/ (pdfDoc # 0 /\ SetCurrentPage)
    \/ GetPageResolves
    \/ RenderCompletes
    \/ RenderFails

SpecLoad == InitLoad /\ [][NextLoad]_vars

(* The overlay: a document of NumPages pages is shown; extracted data      *)
(* arrive whose boxes are present or absent; the reviewer focuses and      *)
(* leaves form fields and clicks boxes.                                    *)

MetaNode(b) ==
    IF b = NoBox THEN Obj(<<"confidence">>, <<Scalar>>)
    ELSE Obj(<<"confidence", "boundingBox">>, <<Scalar, BoxObj(b)>>)

PartyNode(nameBox) ==
    Obj(<<"name", "address", "fields">>,
        <<Scalar, Scalar,
          Obj(<<"name", "address">>, <<MetaNode(nameBox), MetaNode(NoBox)>>)>>)

\* A line item with or without a row box, with or without an hsCode box.
ItemNode(rowBox, hsBox) ==
    IF rowBox = NoBox
    THEN Obj(<<"description", "hsCode", "fields">>,
             <<Scalar, Scalar, Obj(<<"hsCode">>, <<MetaNode(hsBox)>>)>>)
    ELSE Obj(<<"description", "hsCode", "boundingBox", "fields">>,
             <<Scalar, Scalar, BoxObj(rowBox),
               Obj(<<"hsCode">>, <<MetaNode(hsBox)>>)>>)

TableNode == Obj(<<"boundingBox", "rows", "columns">>,
                 <<BoxObj(Box(1, 0, 0, Grid, 1)), Arr(<<Scalar>>), Arr(<<>>)>>)

InvoiceTree(numBox, shipperBox, items) ==
    Obj(<<"invoiceNumber", "invoiceDate", "shipper", "consignee",
          "totalDeclaredValue", "currency", "lineItems", "tables", "fields">>,
        <<Scalar, Scalar, PartyNode(shipperBox), PartyNode(NoBox), Scalar, Scalar,
          Arr(items), Arr(<<TableNode>>),
          Obj(<<"invoiceNumber", "currency">>,
              <<MetaNode(numBox), MetaNode(NoBox)>>)>>)

ItemNodes == {ItemNode(NoBox, Box(1, 2, 1, 3, 2)),
              ItemNode(Box(1, 0, 2, 3, 3), Box(2, 2, 2, 3, 3)),
              ItemNode(NoBox, NoBox)}

InvoiceTrees ==
    {InvoiceTree(numBox, shipperBox, items) :
        numBox \in {NoBox, Box(1, 2, 0, 3, 1)},
        shipperBox \in {NoBox, Box(1, 0, 1, 1, 2), Box(2, 0, 1, 1, 2)},
        items \in UNION {[1..n -> ItemNodes] : n \in 0..MaxItems}}

\* The paths the form hands to handleFieldFocus
\* (src/unnamed/part_004:76, 165, 257, 294).
FormPaths ==
    {<<"fields", ".", "invoiceNumber", ".", "boundingBox">>,
     <<"fields", ".", "currency", ".", "boundingBox">>,
     <<"shipper", ".", "fields", ".", "name", ".", "boundingBox">>}
      \cup {<<"lineItems", "[", IndexToken(i), "]", ".", "fields", ".", "hsCode",
              ".", "boundingBox">> : i \in 0..(MaxItems - 1)}

InitOverlay ==
    /\ OverlayRest
    /\ StoreRest /\ SessionRest
    /\ activeFieldPath = NullPath
    /\ boxes = BoxesWith(Box(1, 1, 1, 2, 2))
    /\ tables = <<FirstTable>>
    /\ bboxInteraction = IdleBbox
    /\ gridInteraction = IdleGrid
    /\ nEvents = 0
    /\ lastEvent = NoEvent
    /\ currentPage = 1 /\ scale = ScaleOne /\ transform = NoPan
    /\ ViewerRest
    /\ ExtractRest
    /\ NormRest
    /\ AppRest
    /\ DocLoaded

NextOverlay ==
    \/ \E invData \in InvoiceTrees : DataArrives(invData)
    \/ \E path \in FormPaths : HandleFieldFocus(path)
    \/ HandleFieldFocus(NullPath)
    \/ \E i \in 1..Len(allBoxes) : OverlayMouseDown(i)
    \/ OverlayMouseUp
    \/ GetPageResolves
    \/ RenderCompletes

SpecOverlay == InitOverlay /\ [][NextOverlay]_vars

----------------------------------------------------------------------------
(* The template store used from an empty localStorage, and the store found *)
(* with an item the service did not write.                                  *)

\* The data saved: two of the shapes, so that a replacement shows.
StoreData ==
    { Invoice(<<"N", "1">>, Meta(0, Box(1, 2, 0, 3, 1)), <<"c">>, <<>>, <<>>),
      Invoice(<<"N", "2">>, Meta(99, Box(1, 2, 0, 3, 1)), <<"c">>, <<>>,
              <<FirstTable>>) }

\* Ids handed to updateTemplate and deleteTemplate: those generated so far
\* and one that no template has.
KnownIds == 1..(nIds + 1)

InitStoreWith(item) ==
    /\ stItem = item
    /\ nIds = 0 /\ nStoreOps = 0
    /\ lastOp = StoreOp("none", <<>>, 0, EmptyInvoice, "none")
    /\ exTemplates = <<>> /\ exLoaded = 0
    /\ exExtracted = NullExtraction /\ exResult = NoResult
    /\ boxes = BoxesWith(Box(1, 1, 1, 2, 2))
    /\ tables = <<FirstTable>>
    /\ bboxInteraction = IdleBbox
    /\ gridInteraction = IdleGrid
    /\ activeFieldPath = None
    /\ nEvents = 0
    /\ lastEvent = NoEvent
    /\ currentPage = 1 /\ scale = ScaleOne /\ transform = NoPan
    /\ ViewerRest
    /\ NormRest /\ AppRest /\ DocLoaded /\ OverlayRest /\ SessionRest

InitStore == InitStoreWith(NoItem)

SaveTemplate ==
    \E vendorName \in VendorNames, data \in StoreData, accepted \in BOOLEAN :
        saveTemplate(vendorName, data, accepted)

UpdateTemplate ==
    \E id \in KnownIds, data \in StoreData, accepted \in BOOLEAN :
        updateTemplate(id, data, accepted)

DeleteTemplate ==
    \E id \in KnownIds, accepted \in BOOLEAN : deleteTemplate(id, accepted)

NextStore ==
    \/ SaveTemplate
    \/ UpdateTemplate
    \/ DeleteTemplate

SpecStore == InitStore /\ [][NextStore]_vars

\* Items the service did not write: text that JSON.parse rejects, the JSON
\* of a value that is not an array, and a storage the browser denies.
ForeignItems ==
    {StoredItem("garbled", <<>>), StoredItem("value", <<>>),
     StoredItem("denied", <<>>)}

InitForeign == \E item \in ForeignItems : InitStoreWith(item)

MatchOnSelect == \E detectedVendor \in VendorNames : matchOnSelect(detectedVendor)

ExtractWithStore ==
    \E extracted \in {NullExtraction}
                        \cup {Extraction(d) : d \in Shapes(<<"c">>)} :
        extractWithStore(extracted)

NextForeign ==
    \/ SaveTemplate
    \/ UpdateTemplate
    \/ DeleteTemplate
    \/ MatchOnSelect
    \/ ExtractWithStore

SpecForeign == InitForeign /\ [][NextForeign]_vars

----------------------------------------------------------------------------
(* Framing: the first page has been rendered, and fields of that page are   *)
(* focused while the zoom buttons are used.                                 *)

\* The boxes framed, all on the first page: a square one, the whole page,
\* a wide one, a tall one, one that is wider than tall in page fractions
\* and taller than wide on the screen, an empty one and one without height.
FrameBoxes ==
    {Box(1, 0, 0, 1, 1), Box(1, 0, 0, Grid, Grid), Box(1, 0, 1, Grid, 2),
     Box(1, 1, 0, 2, Grid), Box(1, 0, 0, Grid, 2), Box(1, 1, 1, 1, 1),
     Box(1, 0, 1, Grid, 1)}

InitZoom ==
    /\ currentPage = 1
    /\ scale = ScaleOne
    /\ transform = NoPan
    /\ calls = {}
    /\ renderTask = 0
    /\ pendingZoomRef = NoBox
    /\ canvasPage = 1
    /\ curTimer = FALSE
    /\ staleTimers = {}
    /\ nCalls = 1
    /\ zoomReq = NoZoomReq
    /\ boxes = BoxesWith(Box(1, 1, 1, 2, 2))
    /\ tables = <<FirstTable>>
    /\ bboxInteraction = IdleBbox
    /\ gridInteraction = IdleGrid
    /\ activeFieldPath = None
    /\ nEvents = 0
    /\ lastEvent = NoEvent
    /\ ExtractRest
    /\ OtherRest

FrameBox == \E box \in FrameBoxes : zoomToBox(box)

NextZoom ==
    \/ FrameBox
    \/ handleZoomIn
    \/ handleZoomOut
    \/ handleResetZoom

SpecZoom == InitZoom /\ [][NextZoom]_vars

\* The same viewer without the Zoom In button: boxes are framed and the view
\* is zoomed out or reset.
NextFrame ==
    \/ FrameBox
    \/ handleZoomOut
    \/ handleResetZoom

SpecFrame == InitZoom /\ [][NextFrame]_vars

\* The viewer with two tables on the page shown: boxes are framed, the view
\* is zoomed out or reset, and the tables are double-clicked.
InitPanned ==
    /\ currentPage = 1
    /\ scale = ScaleOne
    /\ transform = NoPan
    /\ calls = {}
    /\ renderTask = 0
    /\ pendingZoomRef = NoBox
    /\ canvasPage = 1
    /\ curTimer = FALSE
    /\ staleTimers = {}
    /\ nCalls = 1
    /\ zoomReq = NoZoomReq
    /\ boxes = BoxesWith(Box(1, 1, 1, 2, 2))
    /\ tables = <<FirstTable, SecondTable(1)>>
    /\ bboxInteraction = IdleBbox
    /\ gridInteraction = IdleGrid
    /\ activeFieldPath = None
    /\ nEvents = 0
    /\ lastEvent = NoEvent
    /\ ExtractRest
    /\ OtherRest

NextPanned ==
    \/ FrameBox
    \/ handleZoomOut
    \/ handleResetZoom
    \/ DoubleClick

SpecPanned == InitPanned /\ [][NextPanned]_vars

----------------------------------------------------------------------------
(* Claims about rendering and zooming *)

\* C2: at most one page render task is in flight at any time.
C2_OneRenderInFlight == Cardinality(InFlight) <= 1

\* A step that applies the pending zoom: the ref goes from a box to null.
AppliesPending == pendingZoomRef # NoBox /\ pendingZoomRef' = NoBox

\* A step in which a render of page p completes.
CompletesRenderOf(p) ==
    \E c \in calls : c.pc = "render" /\ c.page = p /\ calls' = calls \ {c}

\* A step that resets the zoom (handleResetZoom).
ResetsZoom == scale' = ScaleOne /\ transform' = NoPan

\* C3: a zoomToBox call for a box on another page changes neither scale nor
\* pan and switches to the box's page; the zoom to the box is applied once,
\* in a step in which a render of the box's page completes, not in any step
\* before it, and not again after it.
C3_DeferredZoomOnce ==
    [][ /\ (zoomReq'.seq # zoomReq.seq /\ zoomReq'.otherPage)
            => /\ scale' = scale /\ transform' = transform
               /\ currentPage' = zoomReq'.box.page
               /\ pendingZoomRef' = zoomReq'.box
        /\ AppliesPending
            => /\ CompletesRenderOf(pendingZoomRef.page)
               /\ scale' = performZoom(pendingZoomRef).scale
               /\ transform' = performZoom(pendingZoomRef).transform
        /\ (zoomReq'.seq = zoomReq.seq /\ ~AppliesPending)
            => \/ scale' = scale /\ transform' = transform
               \/ ResetsZoom
        /\ zoomReq'.applied <= 1
      ]_vars

\* A deferred zoom has been applied, once, by the render of its page.
C3_Witness ==
    /\ zoomReq.otherPage /\ zoomReq.applied = 1
    /\ pendingZoomRef = NoBox
    /\ currentPage = zoomReq.box.page
    /\ scale # ScaleOne

\* C4: a deferred request that is applied is the request of the most recent
\* zoomToBox call.
C4_LastWriteWins ==
    [][ AppliesPending => pendingZoomRef = zoomReq.box ]_vars

Done == exResult.status # "pending"

SameIgnoringCase(a, b) == toLowerCase(a) = toLowerCase(b)

ShipperName == exExtracted.data.shipper.name

SomeTemplateMatches ==
    \E i \in DOMAIN exTemplates :
        SameIgnoringCase(exTemplates[i].vendorName, ShipperName)

\* The FieldMetadata objects of an InvoiceData, in a fixed order.
Metas(d) ==
    <<d.fields.invoiceNumber, d.fields.currency, d.shipper.fields.name>>
        \o [i \in 1..Len(d.lineItems) |-> d.lineItems[i].fields.hsCode]

\* An InvoiceData without its confidences.
StripMeta(m) == [m EXCEPT !.confidence = Undefined]

Content(d) ==
    [d EXCEPT !.fields.invoiceNumber = StripMeta(@),
              !.fields.currency = StripMeta(@),
              !.shipper.fields.name = StripMeta(@),
              !.lineItems = [i \in DOMAIN @ |->
                               [@[i] EXCEPT !.fields.hsCode = StripMeta(@)]]]

\* C7: a preselected template T wins over a saved template that matches
\* the shipper name: the call returns T's data and reports T's vendor name;
\* a saved template is applied only when none is preselected, and no
\* template is reported only when none is preselected and none matches.
C7_TemplatePrecedence ==
    Done =>
      /\ (exLoaded # 0 /\ ~exExtracted.isNull)
            => /\ exResult.status = "resolved"
               /\ exResult.templateApplied
                      = Applied(exTemplates[exLoaded].vendorName)
               /\ Content(exResult.data)
                      = Content(exTemplates[exLoaded].invoiceData)
      /\ (exResult.status = "resolved" /\ exLoaded = 0
             /\ ~exResult.templateApplied.isNull)
            => \E i \in DOMAIN exTemplates :
                  /\ SameIgnoringCase(exTemplates[i].vendorName, ShipperName)
                  /\ exResult.templateApplied = Applied(exTemplates[i].vendorName)
                  /\ Content(exResult.data) = Content(exTemplates[i].invoiceData)
      /\ (exResult.status = "resolved" /\ exResult.templateApplied.isNull)
            => exLoaded = 0 /\ ~SomeTemplateMatches

\* T is preselected, another saved template S with other data matches the
\* shipper name, and the call has reported T.
C7_Witness ==
    /\ Done /\ exLoaded # 0
    /\ \E i \in DOMAIN exTemplates :
          /\ i # exLoaded
          /\ SameIgnoringCase(exTemplates[i].vendorName, ShipperName)
          /\ exTemplates[i].invoiceData # exTemplates[exLoaded].invoiceData
    /\ exResult.templateApplied = Applied(exTemplates[exLoaded].vendorName)

\* C8: with a preselected template the call returns the template's stored
\* data unchanged but for confidences, every confidence the stored data
\* holds is 0.99 in the result, and templateApplied is its vendorName.
C8_PreselectedVerbatimBoosted ==
    (exResult.status = "resolved" /\ exLoaded # 0) =>
      LET stored == exTemplates[exLoaded].invoiceData
      IN  /\ exResult.templateApplied = Applied(exTemplates[exLoaded].vendorName)
          /\ Content(exResult.data) = Content(stored)
          /\ \A k \in DOMAIN Metas(stored) :
                Metas(stored)[k].confidence # Undefined
                    => Metas(exResult.data)[k].confidence = Boosted

\* C9: with no preselected template, a saved template whose vendorName
\* equals the shipper name ignoring case is applied, with the result
\* preselecting it gives; no other template is applied; and when none
\* matches a returned templateApplied is null.
C9_AutoMatchIgnoringCase ==
    (Done /\ exLoaded = 0 /\ ~exExtracted.isNull) =>
      /\ \A i \in DOMAIN exTemplates :
            SameIgnoringCase(exTemplates[i].vendorName, ShipperName)
                => exResult = extractInvoiceData(exTemplates, i, exExtracted)
      /\ (exResult.status = "resolved" /\ ~exResult.templateApplied.isNull)
            => \E i \in DOMAIN exTemplates :
                  /\ SameIgnoringCase(exTemplates[i].vendorName, ShipperName)
                  /\ exResult.templateApplied = Applied(exTemplates[i].vendorName)
      /\ (~SomeTemplateMatches /\ exResult.status = "resolved")
            => exResult.templateApplied.isNull

\* A saved template whose name differs from the shipper name in case only
\* has been applied.
C9_Witness ==
    /\ Done /\ exLoaded = 0 /\ ~exExtracted.isNull
    /\ \E i \in DOMAIN exTemplates :
          /\ exTemplates[i].vendorName # ShipperName
          /\ SameIgnoringCase(exTemplates[i].vendorName, ShipperName)
          /\ exResult.templateApplied = Applied(exTemplates[i].vendorName)
          /\ exResult.data # exExtracted.data

\* The call took the branch without template: none preselected, none
\* matching.
NoTemplateApplies ==
    Done /\ exLoaded = 0 /\ ~exExtracted.isNull /\ ~SomeTemplateMatches

\* C10 as claimed: without template the returned data differs from the
\* normalizer output in confidences only, and these are not higher.
C10_OnlyConfidenceLowered ==
    (NoTemplateApplies /\ exResult.status = "resolved") =>
      /\ Content(exResult.data) = Content(exExtracted.data)
      /\ \A k \in DOMAIN Metas(exExtracted.data) :
            Metas(exExtracted.data)[k].confidence # Undefined
                => Metas(exResult.data)[k].confidence
                       <= Metas(exExtracted.data)[k].confidence

\* The first place where 001 starts in an invoice number, 0 if none.
First001(num) ==
    LET at == {i \in 1..(Len(num) - 2) :
                  num[i] = "0" /\ num[i + 1] = "0" /\ num[i + 2] = "1"}
    IN  IF at = {} THEN 0 ELSE CHOOSE i \in at : \A j \in at : i <= j

\* C10: without template the call rejects when the first line item has no
\* hsCode metadata; otherwise it returns the normalizer output with the
\* first 001 of the invoice number turned into O01, the invoice number's
\* confidence set to 0.78, the first line item's hsCode set to 8471.3O.OO
\* and its confidence to 0.65, and everything else equal.  When a template
\* is applied no value of the template is altered and every confidence is
\* the template's or 0.99.
C10_DegradedOutput ==
    /\ NoTemplateApplies =>
         LET d == exExtracted.data
             r == exResult.data
             n == Len(d.lineItems)
         IN  IF n > 0 /\ ~d.lineItems[1].fields.hsCode.present
             THEN exResult.status = "rejected"
             ELSE /\ exResult.status = "resolved"
                  /\ exResult.templateApplied.isNull
                  /\ r.invoiceNumber =
                         IF First001(d.invoiceNumber) = 0 THEN d.invoiceNumber
                         ELSE [d.invoiceNumber EXCEPT
                                 ![First001(d.invoiceNumber)] = "O"]
                  /\ r.fields.invoiceNumber.confidence = DegradedInvoiceNumber
                  /\ r.fields.invoiceNumber.boundingBox
                         = d.fields.invoiceNumber.boundingBox
                  /\ r.fields.currency = d.fields.currency
                  /\ r.shipper = d.shipper
                  /\ r.tables = d.tables
                  /\ Len(r.lineItems) = n
                  /\ \A i \in 2..n : r.lineItems[i] = d.lineItems[i]
                  /\ n > 0 =>
                       /\ r.lineItems[1].hsCode = "8471.3O.OO"
                       /\ r.lineItems[1].fields.hsCode.confidence = DegradedHsCode
                       /\ r.lineItems[1].fields.hsCode.boundingBox
                              = d.lineItems[1].fields.hsCode.boundingBox
    /\ (exResult.status = "resolved" /\ ~exResult.templateApplied.isNull) =>
         \E i \in DOMAIN exTemplates :
            LET stored == exTemplates[i].invoiceData
            IN  /\ exResult.templateApplied = Applied(exTemplates[i].vendorName)
                /\ Content(exResult.data) = Content(stored)
                /\ \A k \in DOMAIN Metas(stored) :
                      Metas(exResult.data)[k].confidence
                          \in {Metas(stored)[k].confidence, Boosted}

\* The branch without template has returned data whose invoice number and
\* first hsCode are not those of the normalizer output, with a confidence
\* above the normalizer's.
C10_Witness ==
    /\ NoTemplateApplies /\ exResult.status = "resolved"
    /\ exResult.data.invoiceNumber # exExtracted.data.invoiceNumber
    /\ exResult.data.fields.invoiceNumber.confidence
           > exExtracted.data.fields.invoiceNumber.confidence

----------------------------------------------------------------------------
(* Claims about the normalizer *)

\* The predictions of every page entry in page order, an entry without a
\* prediction list contributing none.
RECURSIVE AllPredictions(_)
AllPredictions(resp) ==
    IF resp = <<>> THEN <<>>
    ELSE (IF Head(resp).hasPrediction THEN Head(resp).prediction ELSE <<>>)
             \o AllPredictions(Tail(resp))

FirstInPageOrder(label) == findField(AllPredictions(nzResponse), label)

\* C11: each named top-level field has the text and the confidence of the
\* first prediction carrying its label when the page entries are scanned in
\* page order; a label absent from the first page and present on a later
\* one yields the later page's value.
C11_FirstMatchInPageOrder ==
    nzOutput.status = "returned" =>
        LET d == nzOutput.data
            score(label) == IF FirstInPageOrder(label).defined
                            THEN FirstInPageOrder(label).score ELSE Undefined
        IN  /\ d.invoiceNumber = TextOf(FirstInPageOrder("invoice_id"))
            /\ d.fields.invoiceNumber.confidence = score("invoice_id")
            /\ d.invoiceDate = TextOf(FirstInPageOrder("invoice_date"))
            /\ d.fields.invoiceDate.confidence = score("invoice_date")
            /\ d.totalDeclaredValue =
                   parseFloatOr0(TextOf(FirstInPageOrder("total_amount")))
            /\ d.fields.totalDeclaredValue.confidence = score("total_amount")
            /\ d.currency = TextOf(FirstInPageOrder("currency"))
            /\ d.fields.currency.confidence = score("currency")
            /\ d.shipper.name = TextOf(FirstInPageOrder("shipper_name"))
            /\ d.shipper.fields.name.confidence = score("shipper_name")
            /\ d.shipper.address = TextOf(FirstInPageOrder("shipper_address"))
            /\ d.consignee.name = TextOf(FirstInPageOrder("consignee_name"))
            /\ d.consignee.address = TextOf(FirstInPageOrder("consignee_address"))

\* The line-item rows of every page entry in page order and, within a page,
\* in row order; an entry without a tables list contributes none.
RECURSIVE AllRows(_)
AllRows(resp) ==
    IF resp = <<>> THEN <<>>
    ELSE (IF Head(resp).hasTables THEN lineItemsOf(nzDims, Head(resp).tables)
          ELSE <<>>) \o AllRows(Tail(resp))

Scalars(li) == <<li.keys, li.description, li.quantity, li.unitPrice,
                 li.totalPrice, li.countryOfOrigin, li.hsCode>>

\* C12: lineItems holds one record per (page, row) pair of the line_items
\* tables of all pages, ordered by page and then by row, so its length is
\* the sum of the row counts of the pages.
C12_LineItemsOfAllPages ==
    nzOutput.status = "returned" =>
        LET items == nzOutput.data.lineItems
        IN  /\ Len(items) = Len(AllRows(nzResponse))
            /\ \A i \in DOMAIN items :
                   Scalars(items[i]) = Scalars(AllRows(nzResponse)[i])

\* The Table of the table_grid prediction of the k-th page entry, with the
\* dimensions of that page.
TableOfPage(k) ==
    LET tg == findField(nzResponse[k].prediction, "table_grid")
    IN  Table(normalizeBbox(nzDims, tg, k - 1),
              [i \in DOMAIN tg.rows |-> (tg.rows[i] * Grid) \div nzDims[k].height],
              [i \in DOMAIN tg.columns |->
                  (tg.columns[i] * Grid) \div nzDims[k].width])

GridPages ==
    {k \in 1..Len(nzResponse) :
        /\ nzResponse[k].hasPrediction
        /\ findField(nzResponse[k].prediction, "table_grid").defined}

RECURSIVE TablesOfPages(_)
TablesOfPages(pages) ==
    IF pages = {} THEN <<>>
    ELSE LET k == CHOOSE p \in pages : \A q \in pages : p <= q
         IN  <<TableOfPage(k)>> \o TablesOfPages(pages \ {k})

\* C13: when the dimensions of every page are known, tables holds exactly
\* one Table for every page entry that carries a table_grid prediction, its
\* rows divided by that page's height and its columns by that page's width.
C13_OneTablePerGridPage ==
    (nzOutput.status = "returned" /\ Len(nzDims) = Len(nzResponse)) =>
        nzOutput.data.tables = TablesOfPages(GridPages)

\* The box of a prediction or cell f of the k-th page entry (k counted
\* from one): page k, pixel coordinates divided by the dimensions of that
\* page.
BoxOnPage(f, k) ==
    Box(k, (f.xmin * Grid) \div nzDims[k].width,
           (f.ymin * Grid) \div nzDims[k].height,
           (f.xmax * Grid) \div nzDims[k].width,
           (f.ymax * Grid) \div nzDims[k].height)

KnownPages == {k \in 1..Len(nzResponse) : k <= Len(nzDims)}

\* b is the box of a prediction with that label and text on some page.
FromPrediction(b, label, text) ==
    \E k \in KnownPages :
        /\ nzResponse[k].hasPrediction
        /\ \E i \in DOMAIN nzResponse[k].prediction :
              LET f == nzResponse[k].prediction[i]
              IN  f.label = label /\ f.ocr_text = text /\ b = BoxOnPage(f, k)

\* b is the box of a cell of that row and property on some page.
FromCell(b, li, p) ==
    \E k \in KnownPages :
        /\ nzResponse[k].hasTables
        /\ \E t \in DOMAIN nzResponse[k].tables :
           \E i \in DOMAIN nzResponse[k].tables[t].cells :
              LET c == nzResponse[k].tables[t].cells[i]
              IN  /\ nzResponse[k].tables[t].label = "line_items"
                  /\ fieldMapping(c.label) = p
                  /\ p = "hsCode" => c.ocr_text = li.hsCode
                  /\ p = "description" => c.ocr_text = li.description
                  /\ b = BoxOnPage(c, k)

Produced(b) == b # NoBox

AbsentIsDefault(label, value, default, meta) ==
    ~findField(nzResponse[1].prediction, label).defined =>
        /\ value = default
        /\ meta.confidence = Undefined /\ meta.boundingBox = NoBox

\* C15: whatever labels and cells the response contains, the output has
\* every canonical key, every line item has all six scalar keys, an absent
\* text is the empty string, an absent number is 0, and an absent field has
\* neither confidence nor boundingBox.
C15_ShapeComplete ==
    nzOutput.status = "returned" =>
        LET d == nzOutput.data
        IN  /\ DOMAIN d = {"invoiceNumber", "invoiceDate", "shipper", "consignee",
                           "totalDeclaredValue", "currency", "lineItems",
                           "tables", "fields"}
            /\ AbsentIsDefault("invoice_id", d.invoiceNumber, <<>>,
                               d.fields.invoiceNumber)
            /\ AbsentIsDefault("invoice_date", d.invoiceDate, <<>>,
                               d.fields.invoiceDate)
            /\ AbsentIsDefault("total_amount", d.totalDeclaredValue, 0,
                               d.fields.totalDeclaredValue)
            /\ AbsentIsDefault("currency", d.currency, <<>>, d.fields.currency)
            /\ AbsentIsDefault("shipper_name", d.shipper.name, <<>>,
                               d.shipper.fields.name)
            /\ AbsentIsDefault("shipper_address", d.shipper.address, <<>>,
                               d.shipper.fields.address)
            /\ AbsentIsDefault("consignee_name", d.consignee.name, <<>>,
                               d.consignee.fields.name)
            /\ AbsentIsDefault("consignee_address", d.consignee.address, <<>>,
                               d.consignee.fields.address)
            /\ \A i \in DOMAIN d.lineItems : d.lineItems[i].keys = PropNames

\* C16: whatever is missing from a response with at least one page entry
\* (a prediction list, a tables list, a label, cells of a row, the
\* dimensions of a page), and whether a template is preselected, matched or
\* not applied, the call of extractInvoiceData resolves.
C16_NeverRejects ==
    (nzOutput.status # "pending" /\ Len(nzResponse) >= 1) =>
        exResult.status = "resolved"

----------------------------------------------------------------------------
(* Claims about the App *)

\* C17: after an extraction call that failed or returned no data an
\* extraction error is shown and editedData is what it was when the call
\* started.
C17_FailureKeepsReviewedData ==
    lastSettled = "failed" =>
        /\ error = ExtractionFailed
        /\ editedData = heldBefore

----------------------------------------------------------------------------
(* Claims about loading a document *)

\* C18: once a document load has failed (and no other load is under way)
\* the viewer is in its empty state: no document, page count 0, page 1, no
\* raster on the canvas, no render in progress, no pending zoom request,
\* scale 1 and pan {0, 0}.
C18_EmptyAfterFailedLoad ==
    (lastLoad = "failed" /\ loadsPending = 0) =>
        /\ pdfDoc = 0 /\ numPages = 0
        /\ currentPage = 1
        /\ canvasPage = 0
        /\ calls = {}
        /\ pendingZoomRef = NoBox
        /\ scale = ScaleOne /\ transform = NoPan

----------------------------------------------------------------------------
(* Claims about the overlay *)

\* The number of boundingBox members that hold a box, anywhere in the tree
\* but under tables.
RECURSIVE CountBoxes(_)
CountBoxes(node) ==
    IF node.kind = "array"
    THEN Len(Flatten([i \in DOMAIN node.vals |->
                        [j \in 1..CountBoxes(node.vals[i]) |-> j]]))
    ELSE IF node.kind = "object"
    THEN Len(Flatten([i \in DOMAIN node.keys |->
                        IF node.keys[i] = "tables" THEN <<>>
                        ELSE IF node.keys[i] = "boundingBox"
                        THEN (IF node.vals[i].kind = "box" THEN <<1>> ELSE <<>>)
                        ELSE [j \in 1..CountBoxes(node.vals[i]) |-> j]]))
    ELSE 0

\* C19: getAllBoxes yields exactly one pair for every boundingBox present
\* in the data, and the path lookup of pointer-down and of the update
\* dispatch finds at the pair's path the pair's box.
C19_EveryBoxAddressable ==
    /\ Len(allBoxes) = CountBoxes(invoiceData)
    /\ \A i, j \in DOMAIN allBoxes : allBoxes[i].path = allBoxes[j].path => i = j
    /\ \A i \in DOMAIN allBoxes :
           /\ get(invoiceData, allBoxes[i].path).kind = "box"
           /\ get(invoiceData, allBoxes[i].path).box = allBoxes[i].box

\* C20: whenever the active path addresses a field whose box lies on the
\* current page, exactly one drawn box is active and it is that field's
\* box; never are two drawn boxes active.
C20_OneActiveBox ==
    /\ Len(DrawnActive) <= 1
    /\ (/\ activeFieldPath # NullPath
        /\ get(invoiceData, activeFieldPath).kind = "box"
        /\ get(invoiceData, activeFieldPath).box.page = currentPage)
         => (/\ Len(DrawnActive) = 1
             /\ DrawnActive[1].box = get(invoiceData, activeFieldPath).box)

----------------------------------------------------------------------------
(* Stale frames, src/components/PdfViewer.tsx:124-164                      *)

\* The renderPage invocations that have sized the canvas and started their
\* render task: an invocation leaves pc = "getPage" only by doing so.
HasWritten(id) == ~\E d \in calls : d.id = id /\ d.pc = "getPage"

\* A step in which invocation c sizes the canvas and starts its render.
WritesCanvas(c) ==
    /\ c \in calls /\ c.pc = "getPage"
    /\ [c EXCEPT !.pc = "render"] \in calls'

\* C21: the canvas ends with the most recently requested page.  No
\* invocation of renderPage sizes the canvas and starts its render after an
\* invocation made later has done so, and once a later invocation's render
\* has started no render of an earlier invocation is still drawing.
C21_StaleRenderIgnored ==
    [][ /\ \A c \in calls :
              WritesCanvas(c) => \A i \in (c.id + 1)..nCalls : ~HasWritten(i)
        /\ \A c, d \in calls' :
              (c.pc = "render" /\ d.pc = "render") => c.id = d.id
      ]_vars

----------------------------------------------------------------------------
(* Global capture of gestures, src/components/PdfViewer.tsx:251-308        *)

\* The data after a pointer-move to grid point p has moved the box of the
\* box gesture in progress, and the table of the gridline gesture.
BoxesMovedTo(p) ==
    LET b == bboxInteraction
    IN  handleBoxUpdate(b.path,
            SwapBox(MovedBox(b.mode, b.startBox,
                             NormDX(ToScreenX(p[1]) - b.startX),
                             NormDY(ToScreenY(p[2]) - b.startY))))

TablesMovedTo(p) ==
    handleTableUpdate(gridInteraction.tableIndex,
        MovedTable(gridInteraction, ToScreenX(p[1]), ToScreenY(p[2])))

GestureActive == bboxInteraction.mode # "idle" \/ gridInteraction.mode # "idle"

\* A pointer-move served while a gesture is in progress.
MoveInGesture ==
    /\ GestureActive
    /\ nEvents' # nEvents
    /\ lastEvent'.type = "mousemove"

\* C22: while a gesture is in progress every pointer-move, to a point on
\* the page or off it, writes the dragged box and the dragged gridline at
\* the pointer's position; a machine that is not idle becomes idle only in
\* the step of a pointer-up, and that step leaves both machines idle.
C22_CapturedUntilPointerUp ==
    [][ /\ MoveInGesture =>
              LET p == <<lastEvent'.x, lastEvent'.y>>
              IN  /\ bboxInteraction.mode # "idle" => boxes' = BoxesMovedTo(p)
                  /\ gridInteraction.mode # "idle" => tables' = TablesMovedTo(p)
        /\ (\/ bboxInteraction.mode # "idle" /\ bboxInteraction'.mode = "idle"
            \/ gridInteraction.mode # "idle" /\ gridInteraction'.mode = "idle")
             => /\ lastEvent'.type = "mouseup"
                /\ nEvents' = nEvents + 1
                /\ bboxInteraction' = IdleBbox
                /\ gridInteraction' = IdleGrid
      ]_vars

----------------------------------------------------------------------------
(* Claims about the template store *)

NoTwoSameName(list) ==
    \A i, j \in DOMAIN list :
        i # j => toLowerCase(list[i].vendorName) # toLowerCase(list[j].vendorName)

UniqueIds(list) == \A i, j \in DOMAIN list : i # j => list[i].id # list[j].id

\* What a call of saveTemplate leaves of the array before: the template of
\* that vendor name replaced, its id kept, or one template added.
SavedAsClaimed(before, after, op) ==
    LET m == findMatch(before, op.vendorName)
    IN  IF m # 0
        THEN /\ Len(after) = Len(before)
             /\ after[m].id = before[m].id
             /\ after[m].invoiceData = op.data
             /\ \A i \in DOMAIN before : i # m => after[i] = before[i]
        ELSE /\ Len(after) = Len(before) + 1
             /\ SubSeq(after, 1, Len(before)) = before
             /\ after[Len(after)].vendorName = op.vendorName
             /\ after[Len(after)].invoiceData = op.data

\* What a call of deleteTemplate leaves: the templates of other ids, in
\* their order, and none of that id.
DeletedAsClaimed(before, after, op) ==
    /\ \A i \in DOMAIN after : after[i].id # op.id
    /\ Len(after) = Cardinality({i \in DOMAIN before : before[i].id # op.id})
    /\ \A i \in DOMAIN before :
           before[i].id # op.id => \E j \in DOMAIN after : after[j] = before[i]

\* The effect of the call served by a step, on the array stored.
CallAsClaimed ==
    LET before == stItem.list
        after  == stItem'.list
        op     == lastOp'
    IN  /\ op.op = "save" => SavedAsClaimed(before, after, op)
        /\ op.op = "delete" => DeletedAsClaimed(before, after, op)

Unreadable(item) == item.kind \in {"garbled", "denied"}

\* C24: while the persisted template data cannot be read or parsed,
\* getTemplates returns an empty array, and every operation that uses the
\* store completes: vendor matching on file selection finds no template,
\* saving, updating and deleting return without throwing (a save that
\* localStorage accepts leaves exactly the saved template), and an
\* extraction settles.
C24_UnreadableStoreIsEmpty ==
    [][ (Unreadable(stItem) /\ nStoreOps' # nStoreOps) =>
          /\ getTemplates(stItem) = [isArray |-> TRUE, list |-> <<>>]
          /\ lastOp'.outcome \in {"stored", "failed", "unknown id", "completed"}
          /\ lastOp'.op = "select" => lastOp'.id = 0
          /\ lastOp'.op = "extract" => exResult'.status \in {"resolved", "rejected"}
          /\ (lastOp'.op = "save" /\ lastOp'.outcome = "stored") =>
                /\ Len(stItem'.list) = 1
                /\ stItem'.list[1].vendorName = lastOp'.vendorName
                /\ stItem'.list[1].invoiceData = lastOp'.data
          /\ lastOp'.outcome # "stored" => stItem' = stItem
      ]_vars

\* With the storage denied an extraction has resolved and a save has
\* returned without storing anything.
C24_Witness ==
    /\ stItem.kind = "denied"
    /\ lastOp.op = "save" /\ lastOp.outcome = "failed"
    /\ exResult.status = "resolved"

----------------------------------------------------------------------------
(* Claims about framing a region *)

\* A step that serves a zoomToBox call for a box on the current page.
ZoomsOnPage == zoomReq'.seq # zoomReq.seq /\ ~zoomReq'.otherPage

\* C25: framing is idempotent.  After a zoomToBox call for a box on the
\* current page, a second call with the same box, the container and the
\* page size unchanged, sets the scale and the pan it finds.
C25_FramingIdempotent ==
    [][ \A box \in FrameBoxes :
            (ZoomsOnPage /\ zoomReq'.box = box) =>
                performZoom(box)' = [scale |-> scale', transform |-> transform']
      ]_vars

\* A box of the rendered page has been framed: the view is zoomed and
\* panned to it.
C25_Witness ==
    /\ zoomReq.box # NoBox /\ ~zoomReq.otherPage
    /\ canvasPage = currentPage
    /\ scale # ScaleOne /\ transform # NoPan
    /\ scale = performZoom(zoomReq.box).scale

----------------------------------------------------------------------------
(* Claims about the confidence boost *)

\* C26: the confidence boost is idempotent.  For the data of every saved
\* template, boosting the boosted data gives the boosted data, and when the
\* call returns a template's data, which it has boosted, boosting what it
\* returned changes nothing.
C26_BoostIdempotent ==
    /\ \A i \in DOMAIN exTemplates :
          LET d == exTemplates[i].invoiceData
          IN  boostConfidence(boostConfidence(d)) = boostConfidence(d)
    /\ (exResult.status = "resolved" /\ ~exResult.templateApplied.isNull)
          => boostConfidence(exResult.data) = exResult.data

\* The call has returned the data of a template whose confidences the
\* boost raised, beside one it left at 0.
C26_Witness ==
    /\ exResult.status = "resolved" /\ ~exResult.templateApplied.isNull
    /\ \E i \in DOMAIN exTemplates :
          /\ exResult.data = boostConfidence(exTemplates[i].invoiceData)
          /\ exResult.data # exTemplates[i].invoiceData
    /\ \E i \in DOMAIN exTemplates :
          /\ exTemplates[i].invoiceData.fields.invoiceNumber.confidence = 0
          /\ boostConfidence(exTemplates[i].invoiceData).fields.invoiceNumber.confidence = 0

(***************************************************************************)
(* Claims about the normalization round trip                               *)
(***************************************************************************)

\* The pixel box a normalized box stands for on a page of those dimensions,
\* in Grid-ths of a pixel: each coordinate multiplied by the page width or
\* height.
denormalize(b, dim) ==
    [xmin |-> b.x1 * dim.width, ymin |-> b.y1 * dim.height,
     xmax |-> b.x2 * dim.width, ymax |-> b.y2 * dim.height]

Abs(n) == IF n >= 0 THEN n ELSE -n

\* The quotient of the normalization is kept to one unit of the
\* representation; multiplied back by the divisor d it is off the pixel
\* coordinate by less than that unit times d.
WithinTolerance(back, pixel, d) == Abs(back - pixel * Grid) < d

\* Normalizing f on the k-th page entry and multiplying back recovers f.
RoundTrips(f, k) ==
    LET b == normalizeBbox(nzDims, f, k - 1)
        p == denormalize(b, nzDims[k])
    IN  /\ b # NoBox
        /\ b.page = k
        /\ WithinTolerance(p.xmin, f.xmin, nzDims[k].width)
        /\ WithinTolerance(p.xmax, f.xmax, nzDims[k].width)
        /\ WithinTolerance(p.ymin, f.ymin, nzDims[k].height)
        /\ WithinTolerance(p.ymax, f.ymax, nzDims[k].height)

\* The same with no tolerance.
RoundTripsExactly(f, k) ==
    LET b == normalizeBbox(nzDims, f, k - 1)
        p == denormalize(b, nzDims[k])
    IN  /\ p.xmin = f.xmin * Grid /\ p.xmax = f.xmax * Grid
        /\ p.ymin = f.ymin * Grid /\ p.ymax = f.ymax * Grid

\* The predictions and cells of the k-th page entry.
PixelBoxes(k) ==
    {nzResponse[k].prediction[i] : i \in DOMAIN nzResponse[k].prediction}
      \cup UNION {{nzResponse[k].tables[t].cells[i] :
                       i \in DOMAIN nzResponse[k].tables[t].cells} :
                  t \in DOMAIN nzResponse[k].tables}

ExactScales == {MinScale, ScaleOne}

\* The step is a double-click that inserted a separator.
InsertsLine == lastEvent'.type = "dblclick" /\ nEvents' = nEvents + 1

\* C28: screenToPdfCoords inverts the current pan and scale and divides by
\* the displayed size of the page: the separator a double-click inserts is
\* at the page coordinates of the pointer, in the first table that contains
\* them.
C28_InvertsPanAndScale ==
    [][ (InsertsLine /\ scale \in ExactScales) =>
            LET c == [off |-> FALSE, x |-> lastEvent'.x, y |-> lastEvent'.y]
            IN  \E i \in 1..Len(tables), altKey \in BOOLEAN :
                    /\ InTable(tables[i], c)
                    /\ tables' = handleTableUpdate(i,
                                     InsertedTable(tables[i], c, altKey)) ]_vars

\* The same on the views that are not panned.
C28_InvertsScaleUnpanned ==
    [][ (InsertsLine /\ scale \in ExactScales /\ transform = NoPan) =>
            LET c == [off |-> FALSE, x |-> lastEvent'.x, y |-> lastEvent'.y]
            IN  \E i \in 1..Len(tables), altKey \in BOOLEAN :
                    /\ InTable(tables[i], c)
                    /\ tables' = handleTableUpdate(i,
                                     InsertedTable(tables[i], c, altKey)) ]_vars

(***************************************************************************)
(* Claims about the scale and the pan of a framing                         *)
(***************************************************************************)

\* A length of len Grid-ths of a pixel at scale 1 occupies the target size
\* at scale s, to within one thousandth of scale.
OccupiesTarget(len, s) ==
    /\ len * s <= Target10 * 100 * Grid
    /\ Target10 * 100 * Grid < len * (s + 1)

\* It occupies the target, or s is the cap and the length is below the
\* target even there.
FitsOrCapped(len, s, cap) ==
    \/ s < cap /\ OccupiesTarget(len, s)
    \/ s = cap /\ len * cap <= Target10 * 100 * Grid

\* s is the scale of a box that is w by h on the screen at scale 1: the
\* longer of the two occupies the target, up to the cap of 5; a dimension
\* that is empty counts as a factor of 1, so that a box with one empty
\* dimension is shown at no more than scale 1 and an empty box at scale 1.
FitsOnScreen(w, h, s) ==
    /\ (w > 0 /\ h > 0) => FitsOrCapped(Max(w, h), s, MaxZoom)
    /\ (w > 0 /\ h <= 0) => FitsOrCapped(w, s, ScaleOne)
    /\ (w <= 0 /\ h > 0) => FitsOrCapped(h, s, ScaleOne)
    /\ (w <= 0 /\ h <= 0) => s = ScaleOne

\* With the pan t at scale s the centre of the box is at the centre of the
\* container, to within a pixel.
Centred(box, s, t) ==
    LET cx == ContainerW * Grid * ScaleOne - (box.x1 + box.x2) * CanvasW * s
        cy == ContainerH * Grid * ScaleOne - (box.y1 + box.y2) * CanvasH * s
        px == 2 * Grid * ScaleOne
    IN  /\ t.x * px <= cx /\ cx < (t.x + 1) * px
        /\ t.y * px <= cy /\ cy < (t.y + 1) * px

\* Widths and heights of boxes on the screen, in Grid-ths of a pixel: those
\* of the lattice, smaller ones, an empty and an inverted one.
ScreenSizes == (-1)..4 \cup {k * CanvasW : k \in 1..Grid}
                       \cup {k * CanvasH : k \in 1..Grid}

\* The on-screen lengths of the dimensions of the box that are the longest
\* in fractions of the page: one, or both when the box is square there.
LongerFraction(box) ==
    LET dw == box.x2 - box.x1
        dh == box.y2 - box.y1
    IN  (IF dw >= dh THEN {dw * CanvasW} ELSE {})
          \cup (IF dh >= dw THEN {dh * CanvasH} ELSE {})

\* C29 as stated: performZoom(box) sets the scale so that the box's longer
\* normalized dimension occupies 30% of the shorter of the container's width
\* and height, capped at 5, and the pan so that the box's centre is at the
\* container's centre.
C29_FitsLongerFraction ==
    [][ \A box \in FrameBoxes :
            (ZoomsOnPage /\ zoomReq'.box = box) =>
                /\ \E len \in LongerFraction(box) :
                       FitsOrCapped(len, scale', MaxZoom)
                /\ Centred(box, scale', transform')
      ]_vars

\* C29 amended: performZoom(box) sets the scale so that the dimension of the
\* box that is the longer on the screen (fraction of the page times the
\* displayed page width or height) occupies 30% of the shorter of the
\* container's width and height, capped at 5, an empty dimension counting as
\* a factor of 1; and the pan so that the box's centre is at the container's
\* centre.  The scale is that for every on-screen size, also below the
\* lattice, where the cap applies.
C29_FitsLongerOnScreen ==
    [][ ZoomsOnPage =>
          /\ \A w \in ScreenSizes, h \in ScreenSizes :
                 FitsOnScreen(w, h, fitScale(w, h))
          /\ \A box \in FrameBoxes :
                 zoomReq'.box = box =>
                     /\ scale' = fitScale((box.x2 - box.x1) * CanvasW,
                                          (box.y2 - box.y1) * CanvasH)
                     /\ FitsOnScreen((box.x2 - box.x1) * CanvasW,
                                     (box.y2 - box.y1) * CanvasH, scale')
                     /\ Centred(box, scale', transform')
      ]_vars

\* A box that is wider than high in fractions of the page and higher than
\* wide on the screen has been framed: its height occupies the target, its
\* width does not.
C29_Witness ==
    /\ zoomReq.box = Box(1, 0, 0, Grid, 2) /\ ~zoomReq.otherPage
    /\ OccupiesTarget(2 * CanvasH, scale)
    /\ ~OccupiesTarget(Grid * CanvasW, scale)
    /\ Centred(zoomReq.box, scale, transform)
    /\ fitScale(1, 1) = MaxZoom

(***************************************************************************)
(* Claims about the moment of the coordinate swap                          *)
(***************************************************************************)

\* The step is a pointer-move (a pointer-up) served during a box gesture.
MoveOfBox == bboxInteraction.mode # "idle" /\ lastEvent'.type = "mousemove"
              /\ nEvents' = nEvents + 1
UpOfBox   == bboxInteraction.mode # "idle" /\ lastEvent'.type = "mouseup"
              /\ nEvents' = nEvents + 1

\* The snapshot of the gesture plus the delta of a pointer at (kx, ky).
SnapshotPlusDelta(kx, ky) ==
    LET b == bboxInteraction
    IN  MovedBox(b.mode, b.startBox, NormDX(ToScreenX(kx) - b.startX),
                 NormDY(ToScreenY(ky) - b.startY))

\* C30: during a drag or resize gesture the box written on each pointer-move
\* is the snapshot plus the delta with no coordinate swap, so it may be
\* transiently inverted; the swap that restores x1 <= x2 and y1 <= y2 is
\* applied at pointer-up and at no other time.
C30_SwapOnlyAtPointerUp ==
    [][ /\ MoveOfBox =>
               boxes'[bboxInteraction.path]
                   = SnapshotPlusDelta(lastEvent'.x, lastEvent'.y)
        /\ UpOfBox =>
               boxes'[bboxInteraction.path] = SwapBox(boxes[bboxInteraction.path])
      ]_vars

\* What the handlers do: every pointer-move writes the snapshot plus the
\* delta with crossed coordinates swapped, and pointer-up leaves the box as
\* it is.
C30_SwapAtEveryMove ==
    [][ /\ MoveOfBox =>
               boxes'[bboxInteraction.path]
                   = SwapBox(SnapshotPlusDelta(lastEvent'.x, lastEvent'.y))
        /\ UpOfBox => boxes' = boxes
      ]_vars

(***************************************************************************)
(* Claims about the effect of a pointer-move                               *)
(***************************************************************************)

\* The coordinates a mode changes: all four for a drag, those of its corner
\* for a resize.
OwnsX1(mode) == mode \in {"drag", "resize-tl", "resize-bl"}
OwnsX2(mode) == mode \in {"drag", "resize-tr", "resize-br"}
OwnsY1(mode) == mode \in {"drag", "resize-tl", "resize-tr"}
OwnsY2(mode) == mode \in {"drag", "resize-bl", "resize-br"}

\* Box n is snapshot s with the delta (dx, dy) added to the coordinates the
\* mode owns and to no other.
OwnedMoved(mode, s, n, dx, dy) ==
    /\ n.page = s.page
    /\ n.x1 = s.x1 + (IF OwnsX1(mode) THEN dx ELSE 0)
    /\ n.x2 = s.x2 + (IF OwnsX2(mode) THEN dx ELSE 0)
    /\ n.y1 = s.y1 + (IF OwnsY1(mode) THEN dy ELSE 0)
    /\ n.y2 = s.y2 + (IF OwnsY2(mode) THEN dy ELSE 0)

\* The box the step wrote is the snapshot moved by the pointer's delta.
WritesOwnedMoved ==
    LET b == bboxInteraction
    IN  OwnedMoved(b.mode, b.startBox, boxes'[b.path],
                   NormDX(ToScreenX(lastEvent'.x) - b.startX),
                   NormDY(ToScreenY(lastEvent'.y) - b.startY))

\* C31: on every pointer-move of a box gesture the new box is computed from
\* the snapshot taken at pointer-down: 'drag' adds the same delta to both x
\* and to both y coordinates, each resize mode changes only the two
\* coordinates of its corner, and the other two coordinates and the page stay
\* equal to the snapshot's.
C31_OwnedCoordinatesOnly ==
    [][ MoveOfBox => WritesOwnedMoved ]_vars

\* The same for the moves that leave the snapshot plus delta uncrossed.
C31_OwnedCoordinatesUncrossed ==
    [][ (MoveOfBox /\ Ordered(SnapshotPlusDelta(lastEvent'.x, lastEvent'.y)))
            => WritesOwnedMoved ]_vars

(***************************************************************************)
(* Claims about dragging a gridline                                        *)
(***************************************************************************)

\* The step is a pointer-move served during a gridline drag.
MoveOfLine == gridInteraction.mode # "idle" /\ lastEvent'.type = "mousemove"
               /\ nEvents' = nEvents + 1

\* Table t is snapshot s with the dragged line at its snapshot value plus the
\* pointer's delta, clamped to the page; every other entry is at the
\* snapshot's value and index, and the boundingBox is the snapshot's.
OnlyLineMoved(g, s, t, kx, ky) ==
    LET dx == NormDX(ToScreenX(kx) - g.startX)
        dy == NormDY(ToScreenY(ky) - g.startY)
    IN  /\ t.boundingBox = s.boundingBox
        /\ Len(t.rows) = Len(s.rows) /\ Len(t.columns) = Len(s.columns)
        /\ \A j \in 1..Len(s.rows) :
               t.rows[j] = IF g.mode = "drag-row" /\ j = g.lineIndex
                           THEN Max(0, Min(Grid, s.rows[j] + dy))
                           ELSE s.rows[j]
        /\ \A j \in 1..Len(s.columns) :
               t.columns[j] = IF g.mode = "drag-col" /\ j = g.lineIndex
                              THEN Max(0, Min(Grid, s.columns[j] + dx))
                              ELSE s.columns[j]

\* The table of the gesture is written that way and no other table changes.
WritesOnlyLine ==
    LET g == gridInteraction
    IN  /\ Len(tables') = Len(tables)
        /\ OnlyLineMoved(g, g.startTable, tables'[g.tableIndex],
                         lastEvent'.x, lastEvent'.y)
        /\ \A k \in 1..Len(tables) : k # g.tableIndex => tables'[k] = tables[k]

\* C32: during a gridline drag each pointer-move sets only the dragged line's
\* coordinate, to its snapshot value plus the normalized pointer delta
\* clamped to [0,1]; every other row and column coordinate, the position of
\* every entry in its array and the table's boundingBox stay equal to the
\* snapshot taken at pointer-down, nothing being sorted before the release.
C32_OnlyDraggedLineMoves ==
    [][ MoveOfLine => WritesOnlyLine ]_vars

\* The same for the moves of a gridline drag during which no box gesture is
\* in progress.
C32_OnlyDraggedLineMovesAlone ==
    [][ (MoveOfLine /\ bboxInteraction.mode = "idle") => WritesOnlyLine ]_vars

(***************************************************************************)
(* Claims about releasing a dragged row separator                          *)
(***************************************************************************)

\* The step is the pointer-up of a drag of the first row separator of a
\* table whose last pointer-move went to a lower point.
ReleaseOfFirstRow ==
    /\ gridInteraction.mode = "drag-row" /\ gridInteraction.lineIndex = 1
    /\ lastEvent.type = "mousemove"
    /\ ToScreenY(lastEvent.y) > gridInteraction.startY
    /\ lastEvent'.type = "mouseup" /\ nEvents' = nEvents + 1

\* The normalized equivalent of the screen distance of the drag.
DraggedBy == NormDY(ToScreenY(lastEvent.y) - gridInteraction.startY)

\* The dragged separator has not reached another row of the snapshot.
NoRowCrossed ==
    LET s == gridInteraction.startTable
    IN  \A j \in 2..Len(s.rows) : s.rows[1] + DraggedBy < s.rows[j]

\* After the step the first row is at the given value, every other row and
\* every column has the value and the index it had.
FirstRowMovedOnly(to) ==
    LET s == gridInteraction.startTable
        t == tables'[gridInteraction.tableIndex]
    IN  /\ Len(t.rows) = Len(s.rows)
        /\ t.rows[1] = to
        /\ \A j \in 2..Len(s.rows) : t.rows[j] = s.rows[j]
        /\ t.columns = s.columns
        /\ t.boundingBox = s.boundingBox

\* The release sorts the rows and the columns of the table of the gesture.
ReleaseSorts ==
    LET i == gridInteraction.tableIndex
    IN  /\ tables'[i].rows = SortAsc(tables[i].rows)
        /\ tables'[i].columns = SortAsc(tables[i].columns)

\* The step is the pointer-up of a gridline drag.
ReleaseOfLine ==
    /\ gridInteraction.mode # "idle"
    /\ lastEvent'.type = "mouseup" /\ nEvents' = nEvents + 1

\* C33: when a table's first row separator is dragged downward by a screen
\* distance and released without crossing another row, after the release
\* rows[0] has increased by the distance divided by the scale and the
\* displayed page height, all other rows and all columns have their previous
\* values and the order of the array is unchanged; a line dragged past a
\* neighbour takes its new index at the release, where both arrays are
\* sorted.
C33_FirstRowDraggedDown ==
    [][ /\ (ReleaseOfFirstRow /\ NoRowCrossed) =>
               FirstRowMovedOnly(gridInteraction.startTable.rows[1] + DraggedBy)
        /\ ReleaseOfLine => ReleaseSorts
      ]_vars

\* The same for the drags during which no box gesture is in progress, the
\* new value being clamped to the page.
C33_FirstRowDraggedDownAlone ==
    [][ bboxInteraction.mode = "idle" =>
          /\ (ReleaseOfFirstRow /\ NoRowCrossed) =>
                 FirstRowMovedOnly(
                     Clamp01(gridInteraction.startTable.rows[1] + DraggedBy))
          /\ ReleaseOfLine => ReleaseSorts
      ]_vars

\* The same for those drags when the pointer stays on the page.
C33_FirstRowDraggedDownOnPage ==
    [][ (bboxInteraction.mode = "idle" /\ lastEvent.y <= Grid) =>
          /\ (ReleaseOfFirstRow /\ NoRowCrossed) =>
                 FirstRowMovedOnly(gridInteraction.startTable.rows[1] + DraggedBy)
          /\ ReleaseOfLine => ReleaseSorts
      ]_vars

(***************************************************************************)
(* Claims about inserting a separator                                      *)
(***************************************************************************)

\* How often v occurs in the sequence.
TimesIn(seq, v) == Cardinality({j \in DOMAIN seq : seq[j] = v})

\* Sequence after is sorted ascending and holds the entries of before and
\* one v more.
GainsSorted(before, after, v) ==
    /\ Len(after) = Len(before) + 1
    /\ \A j \in 1..(Len(after) - 1) : after[j] <= after[j + 1]
    /\ \A u \in {before[j] : j \in DOMAIN before} \cup
                {after[j] : j \in DOMAIN after} \cup {v} :
           TimesIn(after, u) = TimesIn(before, u) + (IF u = v THEN 1 ELSE 0)

\* The step has added the point's y to the rows, or its x to the columns, of
\* one table whose boundingBox contains the point (x, y), and has changed
\* nothing else.
InsertsAt(x, y) ==
    /\ Len(tables') = Len(tables)
    /\ \E i \in 1..Len(tables) :
          /\ InTable(tables[i], [x |-> x, y |-> y])
          /\ \A k \in 1..Len(tables) : k # i => tables'[k] = tables[k]
          /\ tables'[i].boundingBox = tables[i].boundingBox
          /\ \/ /\ GainsSorted(tables[i].rows, tables'[i].rows, y)
                /\ tables'[i].columns = tables[i].columns
             \/ /\ GainsSorted(tables[i].columns, tables'[i].columns, x)
                /\ tables'[i].rows = tables[i].rows
    /\ UNCHANGED boxes

\* C34: a double-click at a normalized point inside a table's boundingBox
\* adds exactly one coordinate to that table, the point's y to the rows or,
\* under the modifier key, its x to the columns, and leaves the modified
\* array sorted ascending; the other array and the boundingBox are
\* unchanged, at most one table is modified, and a double-click off the page
\* or outside every boundingBox changes nothing.
C34_InsertsOneLine ==
    [][ (lastEvent'.type = "dblclick" /\ nEvents' = nEvents + 1
           /\ scale \in ExactScales)
            => InsertsAt(lastEvent'.x, lastEvent'.y) ]_vars

\* The same on the views that are not panned.
C34_InsertsOneLineUnpanned ==
    [][ (lastEvent'.type = "dblclick" /\ nEvents' = nEvents + 1
           /\ scale \in ExactScales /\ transform = NoPan)
            => InsertsAt(lastEvent'.x, lastEvent'.y) ]_vars

(***************************************************************************)
(* Claims about a pointer that leaves the page                             *)
(***************************************************************************)

\* The point (kx, ky) lies outside the page's area.
OffPage(kx, ky) == kx < 0 \/ kx > Grid \/ ky < 0 \/ ky > Grid

\* C35: during a box drag or resize a pointer-move to a position outside the
\* page contributes no further delta: the box keeps the geometry it had at
\* the last pointer position, and the handler completes.
C35_OffPageHoldsBox ==
    [][ (MoveOfBox /\ OffPage(lastEvent'.x, lastEvent'.y))
            => boxes' = boxes ]_vars

\* What the handler does: the box follows the pointer off the page, each of
\* its owned coordinates being the snapshot's plus the delta, below 0 or
\* above 1 as may be.
C35_OffPageFollowsPointer ==
    [][ (MoveOfBox /\ OffPage(lastEvent'.x, lastEvent'.y))
            => boxes' = handleBoxUpdate(bboxInteraction.path,
                            SwapBox(SnapshotPlusDelta(lastEvent'.x, lastEvent'.y)))
      ]_vars

----------------------------------------------------------------------------
(* The App with its templates and the calls it awaits (src/types.ts).       *)
(* A handler that awaits a service call is two steps: what it does before   *)
(* the await, and the continuation that runs when the call settles,         *)
(* whatever the reviewer did in between.  The continuation has no test of   *)
(* the file selected by then: the setters it calls write the state of the   *)
(* component as it is at that moment.                                       *)

sessionFrame ==
    UNCHANGED <<gestureVars, viewVars, renderVars, extractVars, normVars,
                appVars, docVars, overlayVars>>
storeHistFrame == UNCHANGED <<nStoreOps, lastOp>>

\* A template the reviewer saved in an earlier visit.
EarlierTemplate == VendorTemplate(1, <<"a", "B">>, 1)
EarlierItems == {NoItem, StoredItem("list", <<EarlierTemplate>>)}

\* The names typed into the save dialog, and what the pre-scan detects:
\* the shipper name of the response, or null (the empty name here).
SessionVendors == {<<"a", "B">>, <<"c">>}
DetectedVendors == {<<"A", "b">>, <<>>}

\* vendorTemplates.find(t => t.id === id) || null, as the id found, 0 for
\* null.
findById(templates, id) ==
    IF findIndexById(templates, id) = 0 THEN 0 ELSE id

TemplateIds(templates) == {templates[i].id : i \in DOMAIN templates}

ExtractsInFlight ==
    LET RECURSIVE Sum(_)
        Sum(f) == IF f = 0 THEN 0 ELSE inFlight.extracts[f] + Sum(f - 1)
    IN  Sum(MaxSelections)

\* resetState, lines 190-199: isPreScanning and vendorTemplates are not
\* among the values it sets.
resetApp(st) ==
    [st EXCEPT !.imageFile = 0, !.extractedData = 0, !.editedData = 0,
               !.error = 0, !.isLoading = FALSE, !.loadedTemplateId = 0]

\* The mount effect, lines 152-154, has run: vendorTemplates is what
\* getTemplates() returned.
InitSession ==
    /\ stItem \in EarlierItems
    /\ nIds = Len(stItem.list)
    /\ nStoreOps = 0
    /\ lastOp = StoreOp("none", <<>>, 0, EmptyInvoice, "none")
    /\ appState = MountedApp(getTemplates(stItem).list)
    /\ inFlight = NoCalls
    /\ appHist = NoAppHist
    /\ exTemplates = <<>> /\ exLoaded = 0
    /\ exExtracted = NullExtraction /\ exResult = NoResult
    /\ boxes = BoxesWith(Box(1, 1, 1, 2, 2))
    /\ tables = <<FirstTable>>
    /\ bboxInteraction = IdleBbox
    /\ gridInteraction = IdleGrid
    /\ activeFieldPath = None
    /\ nEvents = 0
    /\ lastEvent = NoEvent
    /\ currentPage = 1 /\ scale = ScaleOne /\ transform = NoPan
    /\ ViewerRest
    /\ NormRest /\ AppRest /\ DocLoaded /\ OverlayRest

\* handleFileSelect up to its await, lines 164-170.
handleFileSelect ==
    LET file == appHist.nSelections + 1
    IN  /\ appHist.nSelections < MaxSelections
        /\ appState' = [resetApp(appState) EXCEPT !.imageFile = file,
                                                  !.isPreScanning = TRUE]
        /\ inFlight' = [inFlight EXCEPT !.scans = @ \cup {file}]
        /\ appHist' = [appHist EXCEPT !.nSelections = file]
        /\ UNCHANGED storeVars
        /\ sessionFrame

\* The id setLoadedTemplateId receives after the pre-scan, lines 171-176,
\* 0 when it is not called.
matchedTemplateId(templates, detectedVendor) ==
    LET m == findMatch(templates, detectedVendor)
    IN  IF detectedVendor # <<>> /\ m # 0 THEN templates[m].id ELSE 0

\* The continuation of handleFileSelect when preScanForVendor settles,
\* lines 171-187.
preScanSettles(file, detectedVendor) ==
    LET currentTemplates == getTemplates(stItem).list
        matched == matchedTemplateId(currentTemplates, detectedVendor)
    IN  /\ file \in inFlight.scans
        /\ appState' = [appState EXCEPT
               !.loadedTemplateId = IF matched # 0 THEN matched ELSE @,
               !.isPreScanning = FALSE]
        /\ inFlight' = [inFlight EXCEPT !.scans = @ \ {file}]
        /\ UNCHANGED <<appHist, storeVars>>
        /\ sessionFrame

\* The Clear button, lines 404-411, calls resetState.
clearState ==
    /\ \/ appState.imageFile # 0
       \/ appState.extractedData # 0
       \/ appState.error # 0
       \/ appState.loadedTemplateId # 0
    /\ appState' = resetApp(appState)
    /\ UNCHANGED <<inFlight, appHist, storeVars>>
    /\ sessionFrame

\* handleExtract up to its await, lines 201-213, behind the button's
\* disabled test (line 392).
handleExtractOfFile ==
    LET loadedTemplate ==
            IF appState.loadedTemplateId # 0
            THEN findById(appState.vendorTemplates, appState.loadedTemplateId)
            ELSE 0
    IN  /\ appState.imageFile # 0
        /\ ~appState.isLoading
        /\ ~appState.isPreScanning
        /\ appHist.nExtracts < MaxExtracts
        /\ appState' = [appState EXCEPT !.isLoading = TRUE,
                                       !.extractedData = 0,
                                       !.editedData = 0, !.error = 0]
        /\ inFlight' = [inFlight EXCEPT !.extracts[appState.imageFile] = @ + 1]
        /\ appHist' = [appHist EXCEPT
               !.nExtracts = @ + 1,
               !.passed = [loadedTemplateId |-> appState.loadedTemplateId,
                           loadedTemplate |-> loadedTemplate]]
        /\ UNCHANGED storeVars
        /\ sessionFrame

\* The continuation of handleExtract when extractInvoiceData settles,
\* lines 214-228: data of the file the call was made for, or the message
\* of its failure, and the loading flag.
extractSettlesFor(file, succeeded) ==
    /\ inFlight.extracts[file] > 0
    /\ appState' = IF succeeded
                   THEN [appState EXCEPT !.extractedData = file,
                                         !.editedData = file,
                                         !.isLoading = FALSE]
                   ELSE [appState EXCEPT !.error = file, !.isLoading = FALSE]
    /\ inFlight' = [inFlight EXCEPT !.extracts[file] = @ - 1]
    /\ UNCHANGED <<appHist, storeVars>>
    /\ sessionFrame

\* setVendorTemplates(templateService.getTemplates()), the line that ends
\* the three handlers that write the store.
refreshed(st, item) == [st EXCEPT !.vendorTemplates = getTemplates(item).list]

\* handleSaveTemplate, lines 307-313.
handleSaveTemplate(vendorName, accepted) ==
    LET written == setItem(stItem,
                       savedList(getTemplates(stItem).list, vendorName,
                                 appState.editedData, nIds + 1),
                       accepted)
    IN  /\ appState.editedData # 0
        /\ nStoreOps < MaxTemplateOps
        /\ stItem' = written
        /\ nIds' = nIds + 1
        /\ nStoreOps' = nStoreOps + 1
        /\ appState' = refreshed(appState, written)
        /\ UNCHANGED <<inFlight, appHist, lastOp>>
        /\ sessionFrame

\* handleUpdateTemplate, lines 315-326, the reviewer confirming.
handleUpdateTemplate(accepted) ==
    LET templates == getTemplates(stItem).list
        templateIndex == findIndexById(templates, appState.loadedTemplateId)
        written == IF templateIndex = 0 THEN stItem
                   ELSE setItem(stItem,
                            [templates EXCEPT ![templateIndex].invoiceData =
                                                  appState.editedData],
                            accepted)
    IN  /\ appState.editedData # 0
        /\ appState.loadedTemplateId # 0
        /\ nStoreOps < MaxTemplateOps
        /\ stItem' = written
        /\ nStoreOps' = nStoreOps + 1
        /\ appState' = refreshed(appState, written)
        /\ UNCHANGED <<inFlight, appHist, nIds, lastOp>>
        /\ sessionFrame

\* The loaded id if handleDeleteTemplate left it alone.
loadedKept(loadedTemplateId, templateId) == loadedTemplateId

\* if(loadedTemplateId === templateId) setLoadedTemplateId(null), lines
\* 329-331: the loaded id afterwards.
loadedAfterDelete(loadedTemplateId, templateId) ==
    IF loadedTemplateId = templateId THEN 0 ELSE loadedTemplateId

\* handleDeleteTemplate, lines 328-334.
handleDeleteTemplate(templateId, accepted) ==
    LET written == setItem(stItem,
                       filterOutId(getTemplates(stItem).list, templateId),
                       accepted)
    IN  /\ templateId \in TemplateIds(appState.vendorTemplates)
        /\ nStoreOps < MaxTemplateOps
        /\ stItem' = written
        /\ nStoreOps' = nStoreOps + 1
        /\ appState' = refreshed(
               [appState EXCEPT !.loadedTemplateId =
                    loadedAfterDelete(appState.loadedTemplateId, templateId)],
               written)
        /\ UNCHANGED <<inFlight, appHist, nIds, lastOp>>
        /\ sessionFrame

\* handleLoadTemplate, lines 336-340, behind the button of a listed
\* template that is not the loaded one (line 440).
handleLoadTemplate(templateId) ==
    /\ templateId \in TemplateIds(appState.vendorTemplates)
    /\ templateId # appState.loadedTemplateId
    /\ appState' = [appState EXCEPT !.loadedTemplateId = templateId]
    /\ UNCHANGED <<inFlight, appHist, storeVars>>
    /\ sessionFrame

\* handleClearTemplate, lines 342-345, behind the button shown with the
\* loaded template's name.
handleClearTemplate ==
    /\ findById(appState.vendorTemplates, appState.loadedTemplateId) # 0
    /\ appState' = [appState EXCEPT !.loadedTemplateId = 0]
    /\ UNCHANGED <<inFlight, appHist, storeVars>>
    /\ sessionFrame

PreScanSettles ==
    \E file \in 1..MaxSelections, detectedVendor \in DetectedVendors :
        preScanSettles(file, detectedVendor)

ExtractSettlesFor ==
    \E file \in 1..MaxSelections, succeeded \in BOOLEAN :
        extractSettlesFor(file, succeeded)

SaveOfSession ==
    \E vendorName \in SessionVendors, accepted \in BOOLEAN :
        handleSaveTemplate(vendorName, accepted)

UpdateOfSession == \E accepted \in BOOLEAN : handleUpdateTemplate(accepted)

DeleteOfSession ==
    \E templateId \in 1..(nIds + 1), accepted \in BOOLEAN :
        handleDeleteTemplate(templateId, accepted)

LoadOfSession == \E templateId \in 1..(nIds + 1) : handleLoadTemplate(templateId)

NextSession ==
    \/ handleFileSelect
    \/ PreScanSettles
    \/ clearState
    \/ handleExtractOfFile
    \/ ExtractSettlesFor
    \/ SaveOfSession
    \/ UpdateOfSession
    \/ DeleteOfSession
    \/ LoadOfSession
    \/ handleClearTemplate

SpecSession == InitSession /\ [][NextSession]_vars

(***************************************************************************)
(* Claims about the calls the App awaits                                   *)
(***************************************************************************)

\* The step is the continuation of an extraction requested for file.
ExtractionSettlesOf(file) ==
    inFlight'.extracts[file] = inFlight.extracts[file] - 1

\* The values an extraction writes are those of before.
ResultLeftOut ==
    /\ appState'.extractedData = appState.extractedData
    /\ appState'.editedData = appState.editedData
    /\ appState'.error = appState.error
    /\ appState'.isLoading = appState.isLoading

LateResultIgnored ==
    \A file \in 1..MaxSelections :
        (ExtractionSettlesOf(file) /\ appState.imageFile # file)
            => ResultLeftOut

\* C36: an extraction result is applied only to the document it was
\* requested for: when the state was cleared or another file selected while
\* the call was in flight, the late result, success or failure, changes
\* neither extractedData, editedData, error nor the loading flag; and at
\* most one extraction is in flight at a time.
C36_LateResultIgnored ==
    [](ExtractsInFlight <= 1) /\ [][LateResultIgnored]_vars

\* What the continuation does: it writes the data, or the message, of the
\* file the call was made for and clears the loading flag, whatever file is
\* selected by then.
C36_LateResultWritten ==
    [][ \A file \in 1..MaxSelections :
          ExtractionSettlesOf(file)
              => /\ \/ /\ appState'.extractedData = file
                       /\ appState'.editedData = file
                       /\ appState'.error = appState.error
                    \/ /\ appState'.error = file
                       /\ appState'.extractedData = appState.extractedData
                       /\ appState'.editedData = appState.editedData
                 /\ appState'.isLoading = FALSE ]_vars

\* The one bound the buttons keep: no extraction starts while the loading
\* flag or the pre-scanning flag is set.
C36_StartsOnlyWhenIdle ==
    [][ appHist'.nExtracts # appHist.nExtracts
            => ~appState.isLoading /\ ~appState.isPreScanning ]_vars

\* The step is the continuation of the pre-scan started by selecting file.
PreScanSettlesOf(file) ==
    file \in inFlight.scans /\ file \notin inFlight'.scans

LateScanIgnored ==
    \A file \in 1..MaxSelections :
        (PreScanSettlesOf(file) /\ appState.imageFile # file)
            => /\ appState'.loadedTemplateId = appState.loadedTemplateId
               /\ appState'.isPreScanning = appState.isPreScanning

\* C37: a vendor pre-scan result is applied only to the file selection that
\* started it: after the state was cleared or another file selected while
\* preScanForVendor was in flight, the late result neither sets
\* loadedTemplateId nor clears the pre-scanning flag of the newer selection.
C37_LateScanIgnored == [][LateScanIgnored]_vars

\* What the continuation does: it clears the pre-scanning flag and, when a
\* stored template has the detected name, loads it, whatever file is
\* selected by then; without a match the loaded id is left as it is.
C37_LateScanApplied ==
    [][ \A file \in 1..MaxSelections :
          PreScanSettlesOf(file)
              => /\ ~appState'.isPreScanning
                 /\ appState'.loadedTemplateId
                        \in {appState.loadedTemplateId}
                              \cup TemplateIds(getTemplates(stItem).list) ]_vars

(***************************************************************************)
(* Claims about the page a double-click writes to                          *)
(***************************************************************************)

\* The step is a double-click.
DoubleClicks == nEvents' = nEvents + 1 /\ lastEvent'.type = "dblclick"

\* Every table the step changed lies on the page shown.
ChangedOnCurrentPage ==
    \A i \in 1..Len(tables) :
        tables'[i] # tables[i] => tables[i].boundingBox.page = currentPage

\* C38: a double-click modifies only a table shown on the current page: a
\* table whose boundingBox.page differs from the current page is never
\* changed by handleDoubleClick, even when the click point lies inside that
\* table's boundingBox coordinates.
C38_DoubleClickOnCurrentPage ==
    [][DoubleClicks => ChangedOnCurrentPage]_vars

\* What the handler does: it changes the first table of the list whose
\* boundingBox coordinates hold the click point, whatever its page, and no
\* other.
C38_DoubleClickFirstTableInside ==
    [][ DoubleClicks
          => \E i \in 1..Len(tables) :
                /\ tables'[i] # tables[i]
                /\ \A j \in 1..Len(tables) : j # i => tables'[j] = tables[j]
                /\ \A j \in 1..(i - 1) :
                      ~InTable(tables[j],
                               screenToPdfCoords(ClientX(lastEvent'.x),
                                                 ClientY(lastEvent'.y),
                                                 RectLeft, RectTop)) ]_vars

(***************************************************************************)
(* Claims about the loaded template                                        *)
(***************************************************************************)

LoadedIsListed ==
    \/ appState.loadedTemplateId = 0
    \/ appState.loadedTemplateId \in TemplateIds(appState.vendorTemplates)

\* C39: in every reachable state of the application, after any sequence of
\* load, clear, save, update and delete template actions and file
\* selections, loadedTemplateId is either null or the id of a template that
\* exists in vendorTemplates, so the template handed to the extraction as
\* preselected is always the one shown as loaded.
C39_LoadedTemplateListed ==
    /\ LoadedIsListed
    /\ appHist.passed.loadedTemplate = appHist.passed.loadedTemplateId

\* A template is loaded in a list that the handlers have written to, after
\* an extraction that was handed a loaded template.
C39_Witness ==
    /\ appState.loadedTemplateId # 0
    /\ nStoreOps > 0
    /\ Len(appState.vendorTemplates) = 2
    /\ appHist.passed.loadedTemplate # 0

====
